---- MODULE Spec2Model ----
(***************************************************************************)
(* PancakeDB client/core: the segment read path.                           *)
(*                                                                         *)
(* Client::decode_segment reads the deletion bitmap of a segment, then     *)
(* reads every requested column chunk by chunk (following continuation     *)
(* tokens), decodes the compressed, implicit-null and uncompressed regions *)
(* of each column, filters deleted rows and joins the columns into rows.   *)
(*                                                                         *)
(* The server is the environment: every response (codec, data, token,      *)
(* implicit null count, or a gRPC status) is a nondeterministic choice.    *)
(* One action runs the client from the completion of one await to the next *)
(* await (or to the return of the call).                                   *)
(***************************************************************************)
EXTENDS Integers, Sequences, FiniteSets, TLC

(***************************************************************************)
(* Bounds of the model.                                                    *)
(***************************************************************************)
\* longest bool sequence given to compress_deletions
MaxBools == 3
\* longest vector of FieldValues given to an encoder or a compressor
MaxBody == 5
MaxLen == 2
\* responses the server gives for one column before it must end the read
MaxResponses == 2
\* largest implicit_nulls_count the server reports
MaxNulls == 1
\* responses the server gives for all the columns of one decode_segment
MaxSegmentResponses == 3

(***************************************************************************)
(* Program constants.                                                      *)
(***************************************************************************)
ESCAPE_BYTE == 255
COUNT_BYTE == 254
NULL_BYTE == 253
\* usize::MAX, the initial n of decode_segment (TLC integers are 32 bits wide;
\* only "larger than every vector length" matters to n.min(len))
USIZE_MAX == 2147483647
\* u8::MAX, the largest nested_list_depth
U8_MAX == 255
\* compression::Q_COMPRESS and compression::ZSTD, the codec names on the wire
Q_COMPRESS == "q_compress"
ZSTD == "zstd"

DataTypes == {"String", "Int64", "Bytes", "Bool", "Float32", "Float64", "TimestampMicros"}

(***************************************************************************)
(* Results and errors.                                                     *)
(***************************************************************************)
Ok(v) == [ok |-> TRUE, val |-> v]
Err(e) == [ok |-> FALSE, err |-> e]
\* an index out of range ends the call by a panic
Panicked(msg) == [ok |-> FALSE, err |-> [kind |-> "panic", message |-> msg]]

\* CoreError::invalid / CoreError::corrupt
CoreInvalid(msg) == [kind |-> "Invalid", message |-> msg]
CoreCorrupt(msg) == [kind |-> "Corrupt", message |-> msg]
\* impl<T: OtherUpcastable> From<T> for CoreError
CoreOther(msg) == [kind |-> "Other", message |-> msg]

\* impl From<QCompressError> for CoreError
CoreFromQCompressAsOther(e) == [kind |-> "Other", message |-> e.message]
CoreFromQCompress(e) ==
  [kind |-> CASE e.kind = "Compatibility" -> "Other"
              [] e.kind = "Corruption" -> "Corrupt"
              [] e.kind = "InsufficientData" -> "Corrupt"
              [] e.kind = "InvalidArgument" -> "Invalid",
   message |-> e.message]

\* ClientError::other(message)
ClientOtherAsInvalid(msg) == [kind |-> "Invalid", message |-> msg]
ClientOtherAsConnection(msg) == [kind |-> "Connection", message |-> msg]
ClientOther(msg) == [kind |-> "Other", message |-> msg]
\* impl<T: OtherUpcastable> From<T> for ClientError (CoreError, FromUtf8Error)
ClientFromCore(e) == [kind |-> "Other", message |-> e.message]
\* impl From<tonic::transport::Error> for ClientError
ClientFromTransport(err) == [kind |-> "Connection", message |-> err.message]
\* impl From<Status> for ClientError
ClientFromStatusAsOther(status) == [kind |-> "Other", message |-> status.message]
ClientFromStatus(status) == [kind |-> "Grpc", code |-> status.code, message |-> status.message]

\* `?` on a CoreResult inside a function returning ClientResult
UpcastCore(r) == IF r.ok THEN r ELSE Err(ClientFromCore(r.err))

(***************************************************************************)
(* FieldValue: null, a primitive value, or a list of FieldValues.          *)
(***************************************************************************)
\* the ? operator: the error returns at once, the value goes on
AndThen(r, Continue(_)) == IF r.ok THEN Continue(r.val) ELSE r
NullValue == [kind |-> "null"]
PrimValue(dtype, x) == [kind |-> dtype, v |-> x]
ListValue(vals) == [kind |-> "list", vals |-> vals]

(***************************************************************************)
(* Primitives and atoms.  A primitive is one atom (i64, f32, f64, bool,    *)
(* timestamp) or a sequence of u8 atoms (String, Vec<u8>).                 *)
(*                                                                         *)
(* An i64 is four 16-bit limbs (two's complement, most significant first), *)
(* an f32 two and an f64 four limbs of its IEEE-754 bits, a u8 a number in *)
(* 0..255, a TimestampMicros a number of microseconds.  A Value of a       *)
(* timestamp is a Timestamp [seconds, nanos].                              *)
(***************************************************************************)
\* Primitive::IS_ATOMIC
IsAtomic(dtype) == dtype \notin {"String", "Bytes"}

\* Atom::BYTE_SIZE
AtomByteSize(dtype) ==
  CASE dtype = "Int64" -> 8
    [] dtype = "Float32" -> 4
    [] dtype = "Float64" -> 8
    [] dtype = "TimestampMicros" -> 12
    [] dtype = "Bool" -> 1
    [] dtype \in {"String", "Bytes"} -> 1

MICROS_PER_SEC == 1000000
NANOS_PER_MICRO == 1000

\* to_be_bytes of a value of 16-bit limbs
LimbsToBeBytes(limbs) ==
  [k \in 1..(2 * Len(limbs)) |->
     IF k % 2 = 1 THEN limbs[(k + 1) \div 2] \div 256 ELSE limbs[k \div 2] % 256]
\* from_be_bytes
LimbsFromBeBytesSwapped(bytes) ==
  [k \in 1..(Len(bytes) \div 2) |-> 256 * bytes[2 * k] + bytes[2 * k - 1]]
LimbsFromBeBytes(bytes) ==
  [k \in 1..(Len(bytes) \div 2) |-> 256 * bytes[2 * k - 1] + bytes[2 * k]]

RECURSIVE BigEndian(_)
BigEndian(bytes) ==
  IF bytes = << >> THEN 0
  ELSE 256 * BigEndian(SubSeq(bytes, 1, Len(bytes) - 1)) + bytes[Len(bytes)]

\* Atom::to_bytes
AtomToBytes(dtype, atom) ==
  CASE dtype \in {"Int64", "Float32", "Float64"} -> LimbsToBeBytes(atom)
    [] dtype = "TimestampMicros" ->
         <<0, 0, 0, 0, 0, 0, 0, 0>> \o
         <<atom \div 16777216, (atom \div 65536) % 256, (atom \div 256) % 256, atom % 256>>
    [] dtype = "Bool" -> IF atom THEN <<1>> ELSE <<0>>
    [] dtype \in {"String", "Bytes"} -> <<atom>>

\* Atom::try_from_bytes
AtomTryFromBytes(dtype, bytes) ==
  IF Len(bytes) # AtomByteSize(dtype) THEN Err(CoreInvalid("atom size"))
  ELSE CASE dtype \in {"Int64", "Float32", "Float64"} -> Ok(LimbsFromBeBytes(bytes))
         [] dtype = "TimestampMicros" ->
              IF SubSeq(bytes, 1, 8) = <<0, 0, 0, 0, 0, 0, 0, 0>> /\ bytes[9] < 128
              THEN Ok(BigEndian(SubSeq(bytes, 9, 12)))
              ELSE Err(CoreOther("timestamp beyond 2^31 microseconds"))
         [] dtype = "Bool" ->
              IF bytes[1] = 0 THEN Ok(FALSE)
              ELSE IF bytes[1] = 1 THEN Ok(TRUE)
              ELSE Err(CoreCorrupt("unable to decode bit"))
         [] dtype \in {"String", "Bytes"} -> Ok(bytes[1])

\* the bytes are UTF-8 (of code points below 0x800: one or two bytes each)
RECURSIVE IsUtf8(_)
IsUtf8(bytes) ==
  IF bytes = << >> THEN TRUE
  ELSE IF bytes[1] < 128 THEN IsUtf8(Tail(bytes))
  ELSE /\ bytes[1] \in 194..223
       /\ Len(bytes) >= 2
       /\ bytes[2] \in 128..191
       /\ IsUtf8(SubSeq(bytes, 3, Len(bytes)))

\* Primitive::try_from_value: the Value of a FieldValue to the primitive
TimestampFromValueRounded(ts) ==
  ts.seconds * MICROS_PER_SEC + (ts.nanos + NANOS_PER_MICRO - 1) \div NANOS_PER_MICRO
TimestampFromValue(ts) == ts.seconds * MICROS_PER_SEC + ts.nanos \div NANOS_PER_MICRO
TryFromValue(dtype, value) ==
  IF value.kind # dtype THEN Err(CoreInvalid("cannot read primitive from value"))
  ELSE IF dtype = "TimestampMicros" THEN Ok(TimestampFromValue(value.v))
  ELSE Ok(value.v)

\* Primitive::to_value
TimestampToValue(micros) ==
  [seconds |-> micros \div MICROS_PER_SEC,
   nanos |-> (micros % MICROS_PER_SEC) * NANOS_PER_MICRO]
ToValue(dtype, p) ==
  IF dtype = "TimestampMicros" THEN PrimValue(dtype, TimestampToValue(p))
  ELSE PrimValue(dtype, p)

\* Primitive::to_atoms
ToAtoms(dtype, p) == IF IsAtomic(dtype) THEN <<p>> ELSE p

\* Primitive::try_from_atoms
TryFromAtoms(dtype, atoms) ==
  IF IsAtomic(dtype)
  THEN IF atoms = << >> THEN Panicked("index out of bounds: the len is 0 but the index is 0")
       ELSE Ok(atoms[1])
  ELSE IF dtype = "String" /\ ~IsUtf8(atoms) THEN Err(CoreCorrupt("invalid utf-8"))
  ELSE Ok(atoms)

\* Atom::try_from_bytes followed by Primitive::try_from_atoms and to_value
AtomValueFromBytes(dtype, bytes) ==
  AndThen(AtomTryFromBytes(dtype, bytes), LAMBDA a :
    AndThen(TryFromAtoms(dtype, <<a>>), LAMBDA p : Ok(ToValue(dtype, p))))

(***************************************************************************)
(* Uncompressed (escape-framed) decoding: encoding::new_field_value_decoder *)
(* and Decoder::decode.                                                    *)
(***************************************************************************)
\* read n atom bytes starting at index i, undoing the escapes
RECURSIVE ReadEscaped(_, _, _, _)
ReadEscaped(bytes, i, n, acc) ==
  IF n = 0 THEN Ok([bytes |-> acc, i |-> i])
  ELSE IF i > Len(bytes) THEN Err(CoreCorrupt("out of bytes"))
  ELSE IF bytes[i] = ESCAPE_BYTE
    THEN IF i + 1 > Len(bytes) THEN Err(CoreCorrupt("out of bytes"))
         ELSE ReadEscaped(bytes, i + 2, n - 1, Append(acc, bytes[i + 1]))
  ELSE ReadEscaped(bytes, i + 1, n - 1, Append(acc, bytes[i]))

\* one value at nesting depth `depth` of a column of depth D, starting at i:
\* an atom at depth D, COUNT_BYTE, <count>, <count values> above it
\* the count atoms of a value of a non-atomic primitive, starting at i
RECURSIVE DecodeAtoms(_, _, _, _, _)
DecodeAtoms(bytes, i, count, dtype, acc) ==
  IF count = 0 THEN Ok([atoms |-> acc, i |-> i])
  ELSE AndThen(ReadEscaped(bytes, i, AtomByteSize(dtype), << >>), LAMBDA r :
         AndThen(AtomTryFromBytes(dtype, r.bytes), LAMBDA a :
           DecodeAtoms(bytes, r.i, count - 1, dtype, Append(acc, a))))

RECURSIVE DecodeValueAt(_, _, _, _, _)
RECURSIVE DecodeItems(_, _, _, _, _, _, _)
DecodeValueAt(bytes, i, depth, D, dtype) ==
  IF depth = D /\ IsAtomic(dtype) THEN
    AndThen(ReadEscaped(bytes, i, AtomByteSize(dtype), << >>), LAMBDA r :
      AndThen(AtomValueFromBytes(dtype, r.bytes), LAMBDA a : Ok([v |-> a, i |-> r.i])))
  ELSE IF i > Len(bytes) THEN Err(CoreCorrupt("out of bytes"))
  ELSE IF bytes[i] # COUNT_BYTE THEN Err(CoreCorrupt("expected count byte"))
  ELSE IF depth = D THEN
    AndThen(ReadEscaped(bytes, i + 1, 2, << >>), LAMBDA c :
      AndThen(DecodeAtoms(bytes, c.i, BigEndian(c.bytes), dtype, << >>), LAMBDA a :
        AndThen(TryFromAtoms(dtype, a.atoms), LAMBDA p :
          Ok([v |-> ToValue(dtype, p), i |-> a.i]))))
  ELSE AndThen(ReadEscaped(bytes, i + 1, 2, << >>), LAMBDA c :
         DecodeItems(bytes, c.i, BigEndian(c.bytes), depth + 1, D, dtype, << >>))

DecodeItems(bytes, i, count, depth, D, dtype, acc) ==
  IF count = 0 THEN Ok([v |-> ListValue(acc), i |-> i])
  ELSE AndThen(DecodeValueAt(bytes, i, depth, D, dtype), LAMBDA r :
         DecodeItems(bytes, r.i, count - 1, depth, D, dtype, Append(acc, r.v)))

RECURSIVE DecodeFrom(_, _, _, _, _)
DecodeFrom(bytes, i, dtype, D, acc) ==
  IF i > Len(bytes) THEN Ok(acc)
  ELSE IF bytes[i] = NULL_BYTE THEN DecodeFrom(bytes, i + 1, dtype, D, Append(acc, NullValue))
  ELSE AndThen(DecodeValueAt(bytes, i, 0, D, dtype), LAMBDA r :
         DecodeFrom(bytes, r.i, dtype, D, Append(acc, r.v)))

\* Decoder<FieldValue>::decode(bytes) of new_field_value_decoder(dtype, D)
Decode(bytes, dtype, D) == DecodeFrom(bytes, 1, dtype, D, << >>)

\* Decoder<RepLevelsAndAtoms>: the same walk, keeping levels and atoms instead
\* of building values
\* the levels of a string or bytes value of `count` atoms
AtomLevelsFlat(count, D) == [k \in 1..count |-> D + 1] \o <<D + 1>>
AtomLevels(count, D) == [k \in 1..count |-> D + 2] \o <<D + 1>>

RECURSIVE DecodeLevelsValueAt(_, _, _, _, _)
RECURSIVE DecodeLevelsItems(_, _, _, _, _, _, _)
DecodeLevelsValueAt(bytes, i, depth, D, dtype) ==
  IF depth = D /\ IsAtomic(dtype) THEN
    LET r == ReadEscaped(bytes, i, AtomByteSize(dtype), << >>) IN
    IF ~r.ok THEN r
    ELSE LET a == AtomTryFromBytes(dtype, r.val.bytes) IN
         IF ~a.ok THEN a
         ELSE Ok([levels |-> <<D + 1>>, atoms |-> <<a.val>>, i |-> r.val.i])
  ELSE IF i > Len(bytes) THEN Err(CoreCorrupt("out of bytes"))
  ELSE IF bytes[i] # COUNT_BYTE THEN Err(CoreCorrupt("expected count byte"))
  ELSE LET c == ReadEscaped(bytes, i + 1, 2, << >>) IN
       IF ~c.ok THEN c
       ELSE IF depth = D THEN
         LET a == DecodeAtoms(bytes, c.val.i, BigEndian(c.val.bytes), dtype, << >>) IN
         IF ~a.ok THEN a
         ELSE Ok([levels |-> AtomLevels(Len(a.val.atoms), D), atoms |-> a.val.atoms,
                  i |-> a.val.i])
       ELSE DecodeLevelsItems(bytes, c.val.i, BigEndian(c.val.bytes), depth, D, dtype,
                              [levels |-> << >>, atoms |-> << >>])

\* the count items of the list at depth `depth`, then the level that closes it
DecodeLevelsItems(bytes, i, count, depth, D, dtype, acc) ==
  IF count = 0
  THEN Ok([levels |-> Append(acc.levels, depth + 1), atoms |-> acc.atoms, i |-> i])
  ELSE LET r == DecodeLevelsValueAt(bytes, i, depth + 1, D, dtype) IN
       IF ~r.ok THEN r
       ELSE DecodeLevelsItems(bytes, r.val.i, count - 1, depth, D, dtype,
                              [levels |-> acc.levels \o r.val.levels,
                               atoms |-> acc.atoms \o r.val.atoms])

RECURSIVE DecodeLevelsFrom(_, _, _, _, _)
DecodeLevelsFrom(bytes, i, dtype, D, acc) ==
  IF i > Len(bytes) THEN Ok(acc)
  ELSE IF bytes[i] = NULL_BYTE
  THEN DecodeLevelsFrom(bytes, i + 1, dtype, D, Append(acc, [levels |-> <<0>>, atoms |-> << >>]))
  ELSE LET r == DecodeLevelsValueAt(bytes, i, 0, D, dtype) IN
       IF ~r.ok THEN r
       ELSE DecodeLevelsFrom(bytes, r.val.i, dtype, D,
                             Append(acc, [levels |-> r.val.levels, atoms |-> r.val.atoms]))

\* Decoder<RepLevelsAndAtoms>::decode(bytes) of DecoderImpl::<P, RepLevelsAndAtoms>::new(D):
\* one RepLevelsAndAtoms for each top-level value
DecodeRepLevels(bytes, dtype, D) == DecodeLevelsFrom(bytes, 1, dtype, D, << >>)

\* RepLevelsAndAtoms::extend over the decoded values, from RepLevelsAndAtoms::default()
RECURSIVE Combined(_)
Combined(decoded) ==
  IF decoded = << >> THEN [levels |-> << >>, atoms |-> << >>]
  ELSE LET rest == Combined(Tail(decoded)) IN
       [levels |-> Head(decoded).levels \o rest.levels,
        atoms |-> Head(decoded).atoms \o rest.atoms]
(***************************************************************************)
(* Uncompressed (escape-framed) encoding: encoding::new_encoder and        *)
(* Encoder::encode.                                                        *)
(***************************************************************************)
\* a reserved byte is written as ESCAPE_BYTE, byte
RECURSIVE EscapeBytes(_)
EscapeBytes(bytes) ==
  IF bytes = << >> THEN << >>
  ELSE (IF Head(bytes) \in {ESCAPE_BYTE, COUNT_BYTE, NULL_BYTE}
        THEN <<ESCAPE_BYTE, Head(bytes)>> ELSE <<Head(bytes)>>) \o EscapeBytes(Tail(bytes))

\* COUNT_BYTE and the count, two bytes big-endian, escaped
CountBytes(count) == <<COUNT_BYTE>> \o EscapeBytes(<<(count \div 256) % 256, count % 256>>)

\* the escaped bytes of the atoms, one after the other
RECURSIVE AtomsBytes(_, _)
AtomsBytes(dtype, atoms) ==
  IF atoms = << >> THEN << >>
  ELSE EscapeBytes(AtomToBytes(dtype, Head(atoms))) \o AtomsBytes(dtype, Tail(atoms))

\* the bytes of one value at nesting depth `depth` of a column of depth D
RECURSIVE EncodeValueAt(_, _, _, _)
RECURSIVE EncodeItems(_, _, _, _, _)
EncodeValueAt(value, depth, D, dtype) ==
  IF depth = D THEN
    LET p == TryFromValue(dtype, value) IN
    IF ~p.ok THEN p
    ELSE IF IsAtomic(dtype) THEN Ok(AtomsBytes(dtype, ToAtoms(dtype, p.val)))
    ELSE Ok(CountBytes(Len(ToAtoms(dtype, p.val))) \o AtomsBytes(dtype, ToAtoms(dtype, p.val)))
  ELSE IF value.kind # "list" THEN Err(CoreInvalid("expected a list"))
  ELSE EncodeItems(value.vals, depth + 1, D, dtype, CountBytes(Len(value.vals)))

EncodeItems(vals, depth, D, dtype, acc) ==
  IF vals = << >> THEN Ok(acc)
  ELSE LET r == EncodeValueAt(Head(vals), depth, D, dtype) IN
       IF ~r.ok THEN r
       ELSE EncodeItems(Tail(vals), depth, D, dtype, acc \o r.val)

RECURSIVE EncodeFrom(_, _, _, _)
EncodeFrom(fvs, dtype, D, acc) ==
  IF fvs = << >> THEN Ok(acc)
  ELSE IF Head(fvs) = NullValue THEN EncodeFrom(Tail(fvs), dtype, D, Append(acc, NULL_BYTE))
  ELSE LET r == EncodeValueAt(Head(fvs), 0, D, dtype) IN
       IF ~r.ok THEN r
       ELSE EncodeFrom(Tail(fvs), dtype, D, acc \o r.val)

\* Encoder::encode(fvs) of new_encoder(dtype, D)
Encode(fvs, dtype, D) == EncodeFrom(fvs, dtype, D, << >>)
(***************************************************************************)
(* Compressed streams.  The q_compress library is outside the repository;  *)
(* its self-delimiting stream is modelled as a count n followed by n items *)
(* of `size` bytes each.  What follows the n-th item is not consumed.      *)
(***************************************************************************)
RECURSIVE QItems(_, _, _, _, _)
QItems(bytes, i, n, size, acc) ==
  IF n = 0 THEN Ok([items |-> acc, i |-> i])
  ELSE IF i + size - 1 > Len(bytes) THEN Err(CoreCorrupt("insufficient data"))
  ELSE QItems(bytes, i + size, n - 1, size, Append(acc, SubSeq(bytes, i, i + size - 1)))

\* Decompressor::header + chunks read from index i
QDecompress(bytes, i, size) ==
  IF i > Len(bytes) THEN Err(CoreCorrupt("insufficient data"))
  ELSE QItems(bytes, i + 1, bytes[i], size, << >>)

\* ValueCodec::decompress_rep_levels: the u32 levels narrowed to u8, and the
\* bytes after the level stream
DecompressRepLevels(bytes) ==
  AndThen(QDecompress(bytes, 1, 1), LAMBDA r :
    Ok([levels |-> [k \in 1..Len(r.items) |-> r.items[k][1] % 256],
        remaining_bytes |-> SubSeq(bytes, r.i, Len(bytes))]))

\* Codec::decompress_atoms of the Q codecs (RawQDecompressor::simple_decompress)
DecompressAtoms(dtype, bytes) ==
  AndThen(QDecompress(bytes, 1, AtomByteSize(dtype)), LAMBDA r : Ok(r.items))

(***************************************************************************)
(* rep_levels::AtomNester: levels and atoms to FieldValues.                *)
(* level 0 is a null, D+1 a leaf atom, L in 1..D closes the list at depth L. *)
(***************************************************************************)
\* a string or bytes value: one level D + 2 for each of its atoms, then the
\* level D + 1 that closes it
RECURSIVE NestAtoms(_, _, _, _, _, _, _)
NestAtoms(levels, li, atoms, ai, D, dtype, acc) ==
  IF li > Len(levels) THEN Err(CoreCorrupt("out of levels"))
  ELSE IF levels[li] = D + 1 THEN
    AndThen(TryFromAtoms(dtype, acc), LAMBDA p :
      Ok([v |-> ToValue(dtype, p), li |-> li + 1, ai |-> ai]))
  ELSE IF levels[li] # D + 2 THEN Err(CoreCorrupt("invalid level"))
  ELSE IF ai > Len(atoms) THEN Err(CoreCorrupt("out of atoms"))
  ELSE AndThen(AtomTryFromBytes(dtype, atoms[ai]), LAMBDA a :
         NestAtoms(levels, li + 1, atoms, ai + 1, D, dtype, Append(acc, a)))
RECURSIVE NestValue(_, _, _, _, _, _, _)
RECURSIVE NestList(_, _, _, _, _, _, _, _)
\* the value expected at nesting depth `depth`, reading levels from li and atoms from ai
NestValue(levels, li, atoms, ai, depth, D, dtype) ==
  IF li > Len(levels) THEN Err(CoreCorrupt("out of levels"))
  ELSE IF depth = D /\ ~IsAtomic(dtype) THEN NestAtoms(levels, li, atoms, ai, D, dtype, << >>)
  ELSE IF depth = D THEN
    IF levels[li] # D + 1 THEN Err(CoreCorrupt("invalid level"))
    ELSE IF ai > Len(atoms) THEN Err(CoreCorrupt("out of atoms"))
    ELSE AndThen(AtomValueFromBytes(dtype, atoms[ai]), LAMBDA a :
           Ok([v |-> a, li |-> li + 1, ai |-> ai + 1]))
  ELSE NestList(levels, li, atoms, ai, depth, D, dtype, << >>)

\* the items of the list open at depth `depth` + 1, up to the level that closes it
NestList(levels, li, atoms, ai, depth, D, dtype, acc) ==
  IF li > Len(levels) THEN Err(CoreCorrupt("out of levels"))
  ELSE IF levels[li] = depth + 1 THEN Ok([v |-> ListValue(acc), li |-> li + 1, ai |-> ai])
  ELSE IF levels[li] < depth + 1 THEN Err(CoreCorrupt("invalid level"))
  ELSE AndThen(NestValue(levels, li, atoms, ai, depth + 1, D, dtype), LAMBDA r :
         NestList(levels, r.li, atoms, r.ai, depth, D, dtype, Append(acc, r.v)))

RECURSIVE NestFrom(_, _, _, _, _, _, _)
NestFrom(levels, li, atoms, ai, D, dtype, acc) ==
  IF li > Len(levels) THEN Ok(acc)
  ELSE IF levels[li] = 0 THEN NestFrom(levels, li + 1, atoms, ai, D, dtype, Append(acc, NullValue))
  ELSE AndThen(NestValue(levels, li, atoms, ai, 0, D, dtype), LAMBDA r :
         NestFrom(levels, r.li, atoms, r.ai, D, dtype, Append(acc, r.v)))

\* AtomNester::from_levels_and_values(levels, atoms, D).nested_field_values()
NestedFieldValues(levels, atoms, D, dtype) == NestFrom(levels, 1, atoms, 1, D, dtype, << >>)

(***************************************************************************)
(* Codec selection and the value codec.                                    *)
(***************************************************************************)
\* Option
Some(v) == [some |-> TRUE, val |-> v]
None == [some |-> FALSE]

\* compression::choose_codec(dtype)
ChooseCodecAllQ(dtype) == Q_COMPRESS
ChooseCodec(dtype) ==
  CASE dtype = "Int64" -> Q_COMPRESS
    [] dtype = "String" -> ZSTD
    [] dtype = "Bytes" -> ZSTD
    [] dtype = "Float32" -> Q_COMPRESS
    [] dtype = "Float64" -> Q_COMPRESS
    [] dtype = "Bool" -> Q_COMPRESS
    [] dtype = "TimestampMicros" -> Q_COMPRESS

\* Primitive::new_codec(codec) of each primitive: the codec of that name
I64NewCodecAny(codec) == Some([dtype |-> "Int64", codec |-> codec])
I64NewCodec(codec) ==
  IF codec = Q_COMPRESS THEN Some([dtype |-> "Int64", codec |-> codec]) ELSE None
F32NewCodec(codec) ==
  IF codec = Q_COMPRESS THEN Some([dtype |-> "Float32", codec |-> codec]) ELSE None
F64NewCodec(codec) ==
  IF codec = Q_COMPRESS THEN Some([dtype |-> "Float64", codec |-> codec]) ELSE None
TimestampMicrosNewCodec(codec) ==
  IF codec = Q_COMPRESS THEN Some([dtype |-> "TimestampMicros", codec |-> codec]) ELSE None
BoolNewCodec(codec) ==
  IF codec = Q_COMPRESS THEN Some([dtype |-> "Bool", codec |-> codec]) ELSE None
StringNewCodec(codec) ==
  IF codec = ZSTD THEN Some([dtype |-> "String", codec |-> codec]) ELSE None
BytesNewCodec(codec) ==
  IF codec = ZSTD THEN Some([dtype |-> "Bytes", codec |-> codec]) ELSE None

\* compression::new_codec(dtype, codec)
NewCodec(dtype, codec) ==
  LET maybe_res ==
        CASE dtype = "String" -> StringNewCodec(codec)
          [] dtype = "Int64" -> I64NewCodec(codec)
          [] dtype = "Bytes" -> BytesNewCodec(codec)
          [] dtype = "Bool" -> BoolNewCodec(codec)
          [] dtype = "Float32" -> F32NewCodec(codec)
          [] dtype = "Float64" -> F64NewCodec(codec)
          [] dtype = "TimestampMicros" -> TimestampMicrosNewCodec(codec)
  IN IF maybe_res.some THEN Ok(maybe_res.val)
     ELSE Err(CoreInvalid("compression codec unavailable for data type"))

\* the zstd library is outside the repository; its stream is modelled like
\* the q_compress one, a count n followed by n bytes
\* Codec::compress_atoms of the zstd codec
ZstdCompressAtoms(atoms) == Ok(<<Len(atoms)>> \o atoms)
\* Codec::decompress_atoms of the zstd codec
ZstdDecompressAtoms(bytes) ==
  AndThen(QDecompress(bytes, 1, 1), LAMBDA r : Ok(r.items))

\* the bytes of the atoms, one after the other
RECURSIVE FlatAtomBytes(_, _)
FlatAtomBytes(dtype, atoms) ==
  IF atoms = << >> THEN << >>
  ELSE AtomToBytes(dtype, Head(atoms)) \o FlatAtomBytes(dtype, Tail(atoms))

\* Codec::compress_atoms of the Q codecs (Compressor::simple_compress)
CompressAtoms(dtype, atoms) == Ok(<<Len(atoms)>> \o FlatAtomBytes(dtype, atoms))

\* rep_levels::compress_rep_levels(levels): the levels as a q_compress stream of u32
CompressRepLevels(levels) == Ok(<<Len(levels)>> \o levels)

\* rep_levels::extract_levels_and_atoms: the levels and atoms of one value at
\* nesting depth `depth`
RECURSIVE ExtractValue(_, _, _, _)
RECURSIVE ExtractItems(_, _, _, _, _)
ExtractValue(value, depth, D, dtype) ==
  IF depth = D THEN
    LET p == TryFromValue(dtype, value) IN
    IF ~p.ok THEN p
    ELSE LET atoms == ToAtoms(dtype, p.val) IN
         IF IsAtomic(dtype) THEN Ok([levels |-> <<D + 1>>, atoms |-> atoms])
         ELSE Ok([levels |-> [k \in 1..Len(atoms) |-> D + 2] \o <<D + 1>>, atoms |-> atoms])
  ELSE IF value.kind # "list" THEN Err(CoreInvalid("expected a list"))
  ELSE ExtractItems(value.vals, depth, D, dtype, [levels |-> << >>, atoms |-> << >>])

\* the items of the list at depth `depth`, then the level that closes it
ExtractItems(vals, depth, D, dtype, acc) ==
  IF vals = << >> THEN Ok([levels |-> Append(acc.levels, depth + 1), atoms |-> acc.atoms])
  ELSE LET r == ExtractValue(Head(vals), depth + 1, D, dtype) IN
       IF ~r.ok THEN r
       ELSE ExtractItems(Tail(vals), depth, D, dtype,
                         [levels |-> acc.levels \o r.val.levels, atoms |-> acc.atoms \o r.val.atoms])

RECURSIVE ExtractFrom(_, _, _, _)
ExtractFrom(fvs, dtype, D, acc) ==
  IF fvs = << >> THEN Ok(acc)
  ELSE IF Head(fvs) = NullValue
  THEN ExtractFrom(Tail(fvs), dtype, D, [levels |-> Append(acc.levels, 0), atoms |-> acc.atoms])
  ELSE LET r == ExtractValue(Head(fvs), 0, D, dtype) IN
       IF ~r.ok THEN r
       ELSE ExtractFrom(Tail(fvs), dtype, D,
                        [levels |-> acc.levels \o r.val.levels, atoms |-> acc.atoms \o r.val.atoms])

ExtractLevelsAndAtoms(fvs, dtype, D) ==
  ExtractFrom(fvs, dtype, D, [levels |-> << >>, atoms |-> << >>])

\* ValueCodec::compress(field_values, nested_list_depth)
ValueCodecCompressAtomsOnly(compressor, fvs, D) ==
  LET e == ExtractLevelsAndAtoms(fvs, compressor.dtype, D) IN
  IF ~e.ok THEN e
  ELSE IF compressor.codec = ZSTD THEN ZstdCompressAtoms(e.val.atoms)
  ELSE CompressAtoms(compressor.dtype, e.val.atoms)
ValueCodecCompress(compressor, fvs, D) ==
  LET e == ExtractLevelsAndAtoms(fvs, compressor.dtype, D) IN
  IF ~e.ok THEN e
  ELSE LET res == CompressRepLevels(e.val.levels) IN
       IF ~res.ok THEN res
       ELSE LET a == IF compressor.codec = ZSTD THEN ZstdCompressAtoms(e.val.atoms)
                     ELSE CompressAtoms(compressor.dtype, e.val.atoms) IN
            IF ~a.ok THEN a ELSE Ok(res.val \o a.val)
\* ValueCodec::decompress(bytes, nested_list_depth)
ValueCodecDecompress(decompressor, bytes, D) ==
  AndThen(DecompressRepLevels(bytes), LAMBDA l :
    AndThen(IF decompressor.codec = ZSTD THEN ZstdDecompressAtoms(l.remaining_bytes)
            ELSE DecompressAtoms(decompressor.dtype, l.remaining_bytes),
            LAMBDA atoms : NestedFieldValues(l.levels, atoms, D, decompressor.dtype)))

(***************************************************************************)
(* The HTTP API: parse_pb_with_bytes splits a response body into the JSON  *)
(* of the message and the bytes of its data.                               *)
(***************************************************************************)
\* "}\n".as_bytes()
DELIM_BYTES == <<125, 10>>

\* &bytes[from..to], indices from 0 and `to` excluded
Slice(bytes, from, to) ==
  IF from > to \/ to > Len(bytes) THEN Panicked("range end index out of range for slice")
  ELSE Ok(SubSeq(bytes, from + 1, to))

\* String::from_utf8(bytes)?
StringFromUtf8(bytes) ==
  IF IsUtf8(bytes) THEN Ok(bytes)
  ELSE Err(ClientFromCore([message |-> "invalid utf-8 sequence"]))

\* protobuf::json::merge_from_str(&mut res, content_str)?: the protobuf library is
\* outside the repository; a text is taken as the JSON of a message when it
\* opens with { and closes with }, and the message keeps the text
JsonMergeFromStr(content_str) ==
  IF Len(content_str) >= 2 /\ content_str[1] = 123 /\ content_str[Len(content_str)] = 125
  THEN Ok([json |-> content_str])
  ELSE Err(ClientOther("json parse error"))

\* lines 15-27: the loop over i, from i on; the index of the delimiter
RECURSIVE FindDelim(_, _)
FindDelimNoGuard(bytes, i) ==
  AndThen(Slice(bytes, i, i + Len(DELIM_BYTES)), LAMBDA s :
    IF s = DELIM_BYTES THEN Ok(i) ELSE FindDelim(bytes, i + 1))
FindDelim(bytes, i) ==
  IF i + Len(DELIM_BYTES) > Len(bytes)
  THEN Err(ClientOther("could not parse read segment column response"))
  ELSE AndThen(Slice(bytes, i, i + Len(DELIM_BYTES)), LAMBDA s :
         IF s = DELIM_BYTES THEN Ok(i) ELSE FindDelim(bytes, i + 1))

\* parse_pb_with_bytes(bytes)
ParsePbWithBytesLastDelim(bytes) ==
  AndThen(FindDelim(bytes, 0), LAMBDA i :
    AndThen(Slice(bytes, 0, i + 1), LAMBDA content :
      AndThen(StringFromUtf8(content), LAMBDA content_str :
        AndThen(JsonMergeFromStr(content_str), LAMBDA res :
          AndThen(Slice(bytes, Len(bytes), Len(bytes)), LAMBDA data :
            Ok(<<res, data>>))))))
ParsePbWithBytes(bytes) ==
  AndThen(FindDelim(bytes, 0), LAMBDA i :
    AndThen(Slice(bytes, 0, i + 1), LAMBDA content :
      AndThen(StringFromUtf8(content), LAMBDA content_str :
        AndThen(JsonMergeFromStr(content_str), LAMBDA res :
          AndThen(Slice(bytes, i + Len(DELIM_BYTES), Len(bytes)), LAMBDA data :
            Ok(<<res, data>>))))))

\* api_read_segment_column, lines 313-315: resp.data = data
ApiReadSegmentColumn(content) ==
  AndThen(ParsePbWithBytes(content), LAMBDA parsed :
    Ok([json |-> parsed[1].json, data |-> parsed[2]]))
(***************************************************************************)
(* Deletion bitmap.                                                        *)
(***************************************************************************)
\* deletion::compress_deletions(is_deleted): Compressor::train and compress
CompressDeletions(deleted) ==
  Ok(<<Len(deleted)>> \o [k \in 1..Len(deleted) |-> IF deleted[k] THEN 1 ELSE 0])

\* deletion::decompress_deletions(bytes): Decompressor::<bool>::from_reader
\* and decompress
DecompressDeletionsFirstOnly(bytes) ==
  LET r == QDecompress(bytes, 1, 1) IN
  IF ~r.ok THEN r
  ELSE Ok([k \in 1..Len(r.val.items) |-> r.val.items[1][1] # 0])
DecompressDeletions(bytes) ==
  LET r == QDecompress(bytes, 1, 1) IN
  IF ~r.ok THEN r
  ELSE Ok([k \in 1..Len(r.val.items) |-> r.val.items[k][1] # 0])

(***************************************************************************)
(* The inputs of the model: the columns a caller asks for, and what the    *)
(* server may answer.                                                      *)
(***************************************************************************)
\* the ColumnMeta of the columns a caller may name
Schema ==
  ("a" :> [dtype |-> "Bool", nested_list_depth |-> 0]) @@
  ("b" :> [dtype |-> "Bool", nested_list_depth |-> 1])
ColumnNames == DOMAIN Schema

\* the values Uuid::new_v4() may return
CorrelationIds == {"id1", "id2"}

\* the is_deleted slices a caller of decode_segment_column may pass
IsDeletedArgs ==
  {<< >>, <<TRUE>>, <<FALSE, TRUE>>, <<TRUE, FALSE, TRUE>>, <<FALSE, TRUE, FALSE, FALSE, TRUE>>}

\* data of a ReadSegmentDeletionsResponse
DeletionData == {<< >>, <<0>>, <<1, 1>>, <<2, 0, 1>>, <<3, 1, 0, 1>>}

\* data of a ReadSegmentColumnResponse for a column
ColumnData(c) ==
  IF c = "a"
  THEN {<< >>, <<253>>, <<1>>, <<2, 1, 0, 1>>, <<1, 1, 1, 0>>}
  ELSE {<< >>, <<253>>, <<254, 0, 1, 0>>, <<2, 2, 1, 1, 1>>, <<1, 0, 0>>}

CodecNames == {"", Q_COMPRESS, ZSTD}
Tokens == {"", "t1", "t2"}

\* the responses to a request of decode_segment_column called by itself
ColumnResponses(c) ==
  [codec : CodecNames, data : ColumnData(c), continuation_token : Tokens,
   implicit_nulls_count : {0, MaxNulls}]

\* the responses to a request of decode_segment: a part of ColumnResponses(c)
SegmentPayloads(c) ==
  IF c = "a"
  THEN {<<"", <<253>>>>, <<"", <<1>>>>, <<Q_COMPRESS, <<1, 1, 1, 0>>>>, <<ZSTD, <<1, 1, 1, 0>>>>}
  ELSE {<<"", <<253>>>>, <<"", <<254, 0, 1, 0>>>>, <<Q_COMPRESS, <<2, 2, 1, 1, 1>>>>,
        <<Q_COMPRESS, <<253>>>>}
SegmentResponses(c) ==
  {[codec |-> p[1], data |-> p[2], continuation_token |-> t, implicit_nulls_count |-> k] :
     p \in SegmentPayloads(c), t \in {"", "t1"}, k \in {0, MaxNulls}}

\* the tonic::Status of a failed call
Statuses ==
  {[code |-> "Unavailable", message |-> "unavailable"],
   [code |-> "NotFound", message |-> "segment does not exist"]}

Orders(S) ==
  {p \in [1..Cardinality(S) -> S] : \A x \in S : \E i \in 1..Cardinality(S) : p[i] = x}

NoRequest == [type |-> "none"]
NoResult == [ok |-> FALSE, err |-> [kind |-> "none"]]

\* ReadSegmentDeletionsRequest
DeletionsRequestAsColumn(id) ==
  [type |-> "ReadSegmentColumn", column_name |-> "a", correlation_id |-> id,
   continuation_token |-> ""]
DeletionsRequest(id) == [type |-> "ReadSegmentDeletions", correlation_id |-> id]
\* ReadSegmentColumnRequest
ColumnRequestNoToken(c, id, token) ==
  [type |-> "ReadSegmentColumn", column_name |-> c, correlation_id |-> id,
   continuation_token |-> ""]
ColumnRequestOwnId(c, id, token) ==
  [type |-> "ReadSegmentColumn", column_name |-> c,
   correlation_id |-> CHOOSE other \in CorrelationIds : other # id,
   continuation_token |-> token]
ColumnRequest(c, id, token) ==
  [type |-> "ReadSegmentColumn", column_name |-> c, correlation_id |-> id,
   continuation_token |-> token]

(***************************************************************************)
(* Client::decode_segment_column after the read loop: decode the three     *)
(* regions and drop the deleted rows.                                      *)
(***************************************************************************)
\* row_idx >= is_deleted.len() || !is_deleted[row_idx]   (row_idx counts from 0)
KeepRowStrict(row_idx, deleted) == row_idx < Len(deleted) /\ ~deleted[row_idx + 1]
KeepRow(row_idx, deleted) == row_idx >= Len(deleted) \/ ~deleted[row_idx + 1]

\* for fv in fvs { if <keep> { res.push(fv) }; row_idx += 1 }
RECURSIVE PushKept(_, _, _)
PushKept(st, fvs, deleted) ==
  IF fvs = << >> THEN st
  ELSE PushKept([res |-> IF KeepRow(st.row_idx, deleted) THEN Append(st.res, Head(fvs)) ELSE st.res,
                 row_idx |-> st.row_idx + 1],
                Tail(fvs), deleted)

\* the three loops over the decompressed values, the implicit nulls and the
\* decoded values, sharing res and row_idx
AssembleSwapped(fc, nulls_count, fv, deleted) ==
  PushKept(PushKept(PushKept([res |-> << >>, row_idx |-> 0], fc, deleted),
                    fv, deleted),
           [k \in 1..nulls_count |-> NullValue], deleted).res
AssembleResetIdx(fc, nulls_count, fv, deleted) ==
  PushKept([res |-> << >>, row_idx |-> 0], fc, deleted).res
    \o PushKept([res |-> << >>, row_idx |-> 0], [k \in 1..nulls_count |-> NullValue], deleted).res
    \o PushKept([res |-> << >>, row_idx |-> 0], fv, deleted).res
Assemble(fc, nulls_count, fv, deleted) ==
  PushKept(PushKept(PushKept([res |-> << >>, row_idx |-> 0], fc, deleted),
                    [k \in 1..nulls_count |-> NullValue], deleted),
           fv, deleted).res

\* if !compressed_bytes.is_empty() { new_codec(dtype, &codec)?.decompress(..)? }
DecompressRegion(compressed, codec_name, column) ==
  IF compressed = << >> THEN Ok(<< >>)
  ELSE LET d == NewCodec(column.dtype, codec_name) IN
       IF ~d.ok THEN UpcastCore(d)
       ELSE UpcastCore(ValueCodecDecompress(d.val, compressed, column.nested_list_depth % 256))

\* if !uncompressed_bytes.is_empty() { new_field_value_decoder(..).decode(..)? }
DecodeRegion(uncompressed, column) ==
  IF uncompressed = << >> THEN Ok(<< >>)
  ELSE UpcastCore(Decode(uncompressed, column.dtype, column.nested_list_depth % 256))

\* lines 89-136: the value of decode_segment_column once the loop has ended
DecodeColumn(compressed, uncompressed, codec_name, nulls_count, column, deleted) ==
  IF compressed # << >> /\ nulls_count > 0
  THEN Err(ClientOther("contradictory read responses containing both compacted and implicit data received"))
  ELSE LET fc == DecompressRegion(compressed, codec_name, column) IN
       IF ~fc.ok THEN fc
       ELSE LET fv == DecodeRegion(uncompressed, column) IN
            IF ~fv.ok THEN fv
            ELSE Ok(Assemble(fc.val, nulls_count, fv.val, deleted))

(***************************************************************************)
(* Client::decode_segment: the row join.                                   *)
(***************************************************************************)
Min(x, y) == IF x <= y THEN x ELSE y

\* Row::default(): no fields
DefaultRow == [c \in {} |-> NullValue]

\* row.fields.insert(column_name, fv)
InsertField(row, name, fv) ==
  [c \in (DOMAIN row) \cup {name} |-> IF c = name THEN fv ELSE row[c]]

\* lines 165-171: n = n.min(fvalues.len()); pad rows up to n; insert the column
JoinColumnFirstOnly(st, name, fvalues) ==
  LET n1 == Min(st.n, Len(fvalues))
      padded == st.rows \o [k \in 1..(n1 - Len(st.rows)) |-> DefaultRow]
  IN [n |-> n1,
      rows |-> [i \in 1..Len(padded) |->
                  IF i <= n1 THEN InsertField(padded[i], name, fvalues[1]) ELSE padded[i]]]
JoinColumnLastLen(st, name, fvalues) ==
  LET n1 == Len(fvalues)
      padded == st.rows \o [k \in 1..(n1 - Len(st.rows)) |-> DefaultRow]
  IN [n |-> n1,
      rows |-> [i \in 1..Len(padded) |->
                  IF i <= n1 THEN InsertField(padded[i], name, fvalues[i]) ELSE padded[i]]]
JoinColumn(st, name, fvalues) ==
  LET n1 == Min(st.n, Len(fvalues))
      padded == st.rows \o [k \in 1..(n1 - Len(st.rows)) |-> DefaultRow]
  IN [n |-> n1,
      rows |-> [i \in 1..Len(padded) |->
                  IF i <= n1 THEN InsertField(padded[i], name, fvalues[i]) ELSE padded[i]]]

\* line 174: rows[0..n].to_vec()
ReturnAllRows(all_rows, count) == all_rows
ReturnRows(all_rows, count) == SubSeq(all_rows, 1, count)

(***************************************************************************)
(* State.                                                                  *)
(***************************************************************************)
VARIABLES
  pc,                   \* "idle", "del_wait", "col_wait" (a request is awaited), "done"
  call,                 \* the method called: "decode_segment" or "decode_segment_column"
  columns,              \* the columns argument: column name -> ColumnMeta
  order,                \* the iteration order of the columns map
  col_idx,              \* position in order of the column being read
  correlation_id,
  is_deleted,
  initial_request, continuation_token, compressed_bytes, uncompressed_bytes,
  codec, implicit_nulls_count,   \* the locals of the read loop
  n, rows,              \* the locals of the join
  inflight,             \* the request awaiting its response
  result,               \* the value returned by the call
  \* history of the read, per column
  req_count,            \* ReadSegmentColumn requests sent
  resp_count,           \* responses received
  last_token,           \* continuation token of the last response
  resp_log,             \* codec and data of the responses received, in order
  nulls_log,            \* implicit_nulls_count of the last response, and whether
                        \* a response before it reported implicit nulls (kept
                        \* for decode_segment_column called by itself)
  fvalues_of,           \* the value of decode_segment_column
  sent_ids,             \* correlation IDs of all requests sent
  \* a call of a function of the core library or of an error conversion
  core_call,            \* the function called and its arguments
  core_ret              \* the value it returned

vars ==
  <<pc, call, columns, order, col_idx, correlation_id, is_deleted,
    initial_request, continuation_token, compressed_bytes, uncompressed_bytes,
    codec, implicit_nulls_count, n, rows, inflight, result,
    req_count, resp_count, last_token, resp_log, nulls_log, fvalues_of, sent_ids,
    core_call, core_ret>>

core_vars == <<core_call, core_ret>>
client_vars ==
  <<pc, call, columns, order, col_idx, correlation_id, is_deleted,
    initial_request, continuation_token, compressed_bytes, uncompressed_bytes,
    codec, implicit_nulls_count, n, rows, inflight, result,
    req_count, resp_count, last_token, resp_log, nulls_log, fvalues_of, sent_ids>>
loop_locals ==
  <<initial_request, continuation_token, compressed_bytes, uncompressed_bytes,
    codec, implicit_nulls_count>>
call_args == <<call, columns, order, correlation_id>>
column_history == <<req_count, resp_count, last_token, resp_log, nulls_log>>

Init ==
  /\ pc = "idle"
  /\ call = "none"
  /\ columns = << >>
  /\ order = << >>
  /\ col_idx = 0
  /\ correlation_id = ""
  /\ is_deleted = << >>
  /\ initial_request = TRUE
  /\ continuation_token = ""
  /\ compressed_bytes = << >>
  /\ uncompressed_bytes = << >>
  /\ codec = ""
  /\ implicit_nulls_count = 0
  /\ n = USIZE_MAX
  /\ rows = << >>
  /\ inflight = NoRequest
  /\ result = NoResult
  /\ req_count = [c \in ColumnNames |-> 0]
  /\ resp_count = [c \in ColumnNames |-> 0]
  /\ last_token = [c \in ColumnNames |-> ""]
  /\ resp_log = [c \in ColumnNames |-> << >>]
  /\ nulls_log = [c \in ColumnNames |-> [last |-> 0, earlier |-> FALSE]]
  /\ fvalues_of = [c \in ColumnNames |-> NoResult]
  /\ sent_ids = {}
  /\ core_call = [fn |-> "none"]
  /\ core_ret = NoResult

CurrentColumn == order[col_idx]

\* while initial_request || !continuation_token.is_empty()
LoopConditionAlways(initial, token) == TRUE
LoopCondition(initial, token) == initial \/ token # ""

\* lines 62-77 on entry: fresh locals, and the first request of column c is sent
StartColumnRead(c, id) ==
  /\ initial_request' = TRUE
  /\ continuation_token' = ""
  /\ compressed_bytes' = << >>
  /\ uncompressed_bytes' = << >>
  /\ codec' = ""
  /\ implicit_nulls_count' = 0
  /\ inflight' = ColumnRequest(c, id, "")
  /\ req_count' = [req_count EXCEPT ![c] = @ + 1]
  /\ sent_ids' = sent_ids \cup {inflight'.correlation_id}
  /\ pc' = "col_wait"

\* the call returns r
Return(r) ==
  /\ result' = r
  /\ inflight' = NoRequest
  /\ pc' = "done"

(***************************************************************************)
(* Client::decode_segment, up to its first await.                          *)
(***************************************************************************)
DecodeSegment(cols, ord) ==
  /\ pc = "idle"
  /\ call' = "decode_segment"
  /\ columns' = [c \in cols |-> Schema[c]]
  /\ order' = ord
  /\ IF cols = {}
     THEN /\ Return(Err(ClientOther("unable to decode segment with no columns specified")))
          /\ UNCHANGED <<correlation_id, sent_ids>>
     ELSE \E id \in CorrelationIds :
            /\ correlation_id' = id
            /\ inflight' = DeletionsRequest(id)
            /\ sent_ids' = sent_ids \cup {inflight'.correlation_id}
            /\ pc' = "del_wait"
            /\ UNCHANGED result
  /\ UNCHANGED <<col_idx, is_deleted, loop_locals, n, rows, column_history, fvalues_of>>
  /\ UNCHANGED core_vars

\* decode_is_deleted fails: read_segment_deletions(req).await? returns a Status
DeletionsFailed(status) ==
  /\ pc = "del_wait"
  /\ Return(Err(ClientFromStatus(status)))
  /\ UNCHANGED <<call_args, col_idx, is_deleted, loop_locals, n, rows, column_history,
                 fvalues_of, sent_ids>>
  /\ UNCHANGED core_vars

\* the deletions response arrives: decompress it, then enter the column loop
DeletionsResponse(data) ==
  /\ pc = "del_wait"
  /\ LET bools == UpcastCore(DecompressDeletions(data)) IN
     IF ~bools.ok
     THEN /\ Return(bools)
          /\ UNCHANGED <<col_idx, is_deleted, loop_locals, column_history, sent_ids>>
     ELSE /\ is_deleted' = bools.val
          /\ col_idx' = 1
          /\ StartColumnRead(order[1], correlation_id)
          /\ UNCHANGED <<result, resp_count, last_token, resp_log, nulls_log>>
  /\ UNCHANGED <<call_args, n, rows, fvalues_of>>
  /\ UNCHANGED core_vars

(***************************************************************************)
(* Client::decode_segment_column called by itself, up to its first await.  *)
(***************************************************************************)
DecodeSegmentColumn(c, deleted, id) ==
  /\ pc = "idle"
  /\ call' = "decode_segment_column"
  /\ columns' = [x \in {c} |-> Schema[c]]
  /\ order' = <<c>>
  /\ col_idx' = 1
  /\ correlation_id' = id
  /\ is_deleted' = deleted
  /\ StartColumnRead(c, id)
  /\ UNCHANGED <<n, rows, result, resp_count, last_token, resp_log, nulls_log, fvalues_of>>
  /\ UNCHANGED core_vars

(***************************************************************************)
(* A response of read_segment_column arrives (lines 77-87), and the client *)
(* runs to its next await or to its return.                                *)
(***************************************************************************)
NewCompressedAlways(resp) == compressed_bytes \o resp.data
NewCompressed(resp) ==
  IF resp.codec = "" THEN compressed_bytes ELSE compressed_bytes \o resp.data
NewUncompressed(resp) ==
  IF resp.codec = "" THEN uncompressed_bytes \o resp.data ELSE uncompressed_bytes
NewCodecName(resp) == IF resp.codec = "" THEN codec ELSE resp.codec
\* implicit_nulls_count = resp.implicit_nulls_count
NewNullsCountSum(resp) == implicit_nulls_count + resp.implicit_nulls_count
NewNullsCount(resp) == resp.implicit_nulls_count

\* lines 78-86: the response is applied to the locals of the loop
ApplyResponse(resp) ==
  /\ compressed_bytes' = NewCompressed(resp)
  /\ uncompressed_bytes' = NewUncompressed(resp)
  /\ codec' = NewCodecName(resp)
  /\ continuation_token' = resp.continuation_token
  /\ implicit_nulls_count' = NewNullsCount(resp)
  /\ initial_request' = FALSE

RecordResponse(c, resp) ==
  /\ resp_count' = [resp_count EXCEPT ![c] = @ + 1]
  /\ last_token' = [last_token EXCEPT ![c] = resp.continuation_token]
  /\ resp_log' = [resp_log EXCEPT ![c] = Append(@, [codec |-> resp.codec, data |-> resp.data])]
  /\ nulls_log' = IF call = "decode_segment_column"
                  THEN [nulls_log EXCEPT ![c] = [last |-> resp.implicit_nulls_count,
                                                 earlier |-> @.earlier \/ @.last > 0]]
                  ELSE nulls_log

\* the same sets, by column
ColumnResponseSets == [c \in ColumnNames |-> ColumnResponses(c)]
SegmentResponseSets == [c \in ColumnNames |-> SegmentResponses(c)]
AllResponses == UNION {ColumnResponses(c) : c \in ColumnNames}

\* responses received for all columns so far
RECURSIVE SumOver(_, _)
SumOver(f, S) ==
  IF S = {} THEN 0 ELSE LET x == CHOOSE y \in S : TRUE IN f[x] + SumOver(f, S \ {x})

\* what the server may answer to the request in flight: it ends the read of a
\* column with its MaxResponses-th response, and the reads of a segment with
\* the MaxSegmentResponses-th response in all
Answers ==
  IF call = "decode_segment"
  THEN {resp \in SegmentResponseSets[CurrentColumn] :
          \/ resp.continuation_token = ""
          \/ /\ resp_count[CurrentColumn] + 1 < MaxResponses
             /\ SumOver(resp_count, ColumnNames) + 1 + (Len(order) - col_idx)
                  < MaxSegmentResponses}
  ELSE {resp \in ColumnResponseSets[CurrentColumn] :
          resp_count[CurrentColumn] + 1 < MaxResponses \/ resp.continuation_token = ""}

\* decode_segment_column(..) once the loop has ended on resp
ColumnValue(resp) ==
  DecodeColumn(NewCompressed(resp), NewUncompressed(resp), NewCodecName(resp),
               NewNullsCount(resp), columns[CurrentColumn], is_deleted)

\* read_segment_column(req).await? returns a Status
ColumnFailedRetry(status) ==
  /\ pc = "col_wait"
  /\ req_count[CurrentColumn] <= MaxResponses
  /\ req_count' = [req_count EXCEPT ![CurrentColumn] = @ + 1]
  /\ UNCHANGED <<pc, call_args, col_idx, is_deleted, loop_locals, n, rows, inflight, result,
                 resp_count, last_token, resp_log, nulls_log, fvalues_of, sent_ids, core_vars>>
ColumnFailed(status) ==
  /\ pc = "col_wait"
  /\ Return(Err(ClientFromStatus(status)))
  /\ UNCHANGED <<call_args, col_idx, is_deleted, loop_locals, n, rows, column_history,
                 fvalues_of, sent_ids>>
  /\ UNCHANGED core_vars

\* the loop goes on: the next request is sent
ColumnChunk(resp) ==
  /\ pc = "col_wait"
  /\ resp \in Answers
  /\ LoopCondition(FALSE, resp.continuation_token)
  /\ ApplyResponse(resp)
  /\ RecordResponse(CurrentColumn, resp)
  /\ inflight' = ColumnRequest(CurrentColumn, correlation_id, continuation_token')
  /\ req_count' = [req_count EXCEPT ![CurrentColumn] = @ + 1]
  /\ sent_ids' = sent_ids \cup {inflight'.correlation_id}
  /\ UNCHANGED <<pc, call_args, col_idx, is_deleted, n, rows, result, fvalues_of>>
  /\ UNCHANGED core_vars

\* the loop ends and decode_segment_column, called by itself, returns
ColumnReturn(resp) ==
  /\ pc = "col_wait"
  /\ call = "decode_segment_column"
  /\ resp \in Answers
  /\ ~LoopCondition(FALSE, resp.continuation_token)
  /\ ApplyResponse(resp)
  /\ RecordResponse(CurrentColumn, resp)
  /\ LET fvalues == ColumnValue(resp) IN
     /\ fvalues_of' = [fvalues_of EXCEPT ![CurrentColumn] = fvalues]
     /\ Return(fvalues)
  /\ UNCHANGED <<call_args, col_idx, is_deleted, n, rows, req_count, sent_ids>>
  /\ UNCHANGED core_vars

\* the loop ends inside decode_segment and the column cannot be decoded:
\* decode_segment returns the error
SegmentColumnError(resp) ==
  /\ pc = "col_wait"
  /\ call = "decode_segment"
  /\ resp \in Answers
  /\ ~LoopCondition(FALSE, resp.continuation_token)
  /\ LET fvalues == ColumnValue(resp) IN
     /\ ~fvalues.ok
     /\ fvalues_of' = [fvalues_of EXCEPT ![CurrentColumn] = fvalues]
     /\ Return(fvalues)
  /\ ApplyResponse(resp)
  /\ RecordResponse(CurrentColumn, resp)
  /\ UNCHANGED <<call_args, col_idx, is_deleted, n, rows, req_count, sent_ids>>
  /\ UNCHANGED core_vars

\* the loop ends inside decode_segment: the column is joined into the rows, and
\* the next column is read, or the rows are returned after the last column
SegmentColumnDone(resp) ==
  /\ pc = "col_wait"
  /\ call = "decode_segment"
  /\ resp \in Answers
  /\ ~LoopCondition(FALSE, resp.continuation_token)
  /\ RecordResponse(CurrentColumn, resp)
  /\ LET fvalues == ColumnValue(resp)
         joined == JoinColumn([n |-> n, rows |-> rows], CurrentColumn, fvalues.val)
     IN
     /\ fvalues.ok
     /\ fvalues_of' = [fvalues_of EXCEPT ![CurrentColumn] = fvalues]
     /\ n' = joined.n
     /\ rows' = joined.rows
     /\ IF col_idx < Len(order)
        THEN /\ col_idx' = col_idx + 1
             /\ StartColumnRead(order[col_idx + 1], correlation_id)
             /\ UNCHANGED result
        ELSE /\ ApplyResponse(resp)
             /\ Return(Ok(ReturnRows(joined.rows, joined.n)))
             /\ UNCHANGED <<col_idx, req_count, sent_ids>>
  /\ UNCHANGED <<call_args, is_deleted>>
  /\ UNCHANGED core_vars

(***************************************************************************)
(* Spec: one call of decode_segment.                                       *)
(* SpecColumn: one call of decode_segment_column by itself.                *)
(***************************************************************************)
Next ==
  \/ \E cols \in SUBSET ColumnNames : \E ord \in Orders(cols) : DecodeSegment(cols, ord)
  \/ \E status \in Statuses : DeletionsFailed(status)
  \/ \E data \in DeletionData : DeletionsResponse(data)
  \/ \E status \in Statuses : ColumnFailed(status)
  \/ \E resp \in AllResponses : ColumnChunk(resp)
  \/ \E resp \in AllResponses : SegmentColumnError(resp)
  \/ \E resp \in AllResponses : SegmentColumnDone(resp)

Spec == Init /\ [][Next]_vars

\* the correlation id a caller of decode_segment_column passes (the ids sent
\* are followed through decode_segment)
CallerIds == {"id1"}

NextColumn ==
  \/ \E c \in ColumnNames : \E deleted \in IsDeletedArgs : \E id \in CallerIds :
       DecodeSegmentColumn(c, deleted, id)
  \/ \E status \in Statuses : ColumnFailed(status)
  \/ \E resp \in AllResponses : ColumnChunk(resp)
  \/ \E resp \in AllResponses : ColumnReturn(resp)

SpecColumn == Init /\ [][NextColumn]_vars

(***************************************************************************)
(* SpecCore: one call of a function of the core library or of an error     *)
(* conversion of the client.                                               *)
(***************************************************************************)
\* the codec names a caller may pass
CodecArgs == {"", Q_COMPRESS, ZSTD, "snappy"}

\* the errors a client call may meet
TransportErrors == {[type |-> "transport", message |-> "connection refused"]}
CoreErrors ==
  {[type |-> "core", kind |-> k, message |-> "core"] : k \in {"Invalid", "Other", "Corrupt"}}
Utf8Errors == {[type |-> "utf8", message |-> "invalid utf-8 sequence"]}
StatusErrors == {[type |-> "status", code |-> s.code, message |-> s.message] : s \in Statuses}
\* the errors converted to CoreError: those of q_compress, and the
\* OtherUpcastable ones (FromUtf8Error, TryFromSliceError, std::io::Error)
QCompressErrorKinds == {"Compatibility", "Corruption", "InsufficientData", "InvalidArgument"}
QCompressErrors ==
  {[type |-> "q_compress", kind |-> k, message |-> m] :
     k \in QCompressErrorKinds, m \in {"q_compress", "unexpected end of stream"}}
UpcastableErrors ==
  {[type |-> t, message |-> m] :
     t \in {"utf8", "slice", "io"}, m \in {"invalid utf-8 sequence", "could not convert slice to array"}}
CoreErrorOrigins == QCompressErrors \cup UpcastableErrors
\* CoreError::from(e), by the type of e
CoreErrorFrom(e) ==
  IF e.type = "q_compress" THEN CoreFromQCompress(e) ELSE CoreOther(e.message)
ErrorOrigins == TransportErrors \cup CoreErrors \cup Utf8Errors \cup StatusErrors

\* the sequences over S of length at most len
SeqsUpTo(S, len) == UNION {[1..k -> S] : k \in 0..len}

\* the bodies of a response of the HTTP API: }, \n, {, a letter, and a byte
\* that is not UTF-8
BodyBytes == {125, 10, 123, 97, 200}
Bodies == SeqsUpTo(BodyBytes, MaxBody)
\* the arguments of compress_deletions
BoolSeqs == SeqsUpTo(BOOLEAN, MaxBools)
\* the arguments of decompress_deletions: what compress_deletions returns, and
\* what a deletions response may hold
DeletionBytes == {CompressDeletions(deleted).val : deleted \in BoolSeqs} \cup DeletionData
\* values of the primitives: for each dtype some whose bytes hold the reserved
\* markers 255, 254 and 253 (-1, -0x0002FF01 and i64::MIN; finite floats;
\* 16.645887 s; raw bytes), the empty string and the empty bytes
Primitives(dtype) ==
  CASE dtype = "Bool" -> {TRUE, FALSE}
    [] dtype = "Int64" ->
         {<<0, 0, 0, 0>>, <<65535, 65535, 65535, 65535>>, <<32768, 0, 0, 0>>,
          <<65535, 65533, 255, 254>>}
    [] dtype = "Float32" -> {<<0, 0>>, <<16256, 0>>, <<65407, 65533>>}
    [] dtype = "Float64" -> {<<0, 0, 0, 0>>, <<49136, 0, 0, 0>>, <<65519, 65535, 65534, 253>>}
    [] dtype = "TimestampMicros" ->
         {[seconds |-> 0, nanos |-> 0], [seconds |-> 16, nanos |-> 645887000],
          [seconds |-> 1, nanos |-> 1999], [seconds |-> 2, nanos |-> 999999999]}
    [] dtype = "Bytes" -> {<< >>, <<0, 255, 255, 254, 253>>, <<77, 77>>}
    [] dtype = "String" -> {<< >>, <<97, 98, 99>>, <<195, 169, 122>>}

Leaves(dtype) == {PrimValue(dtype, p) : p \in Primitives(dtype)}

\* two leaves of a dtype, for the lists
LeafA(dtype) ==
  PrimValue(dtype,
    CASE dtype = "Bool" -> TRUE
      [] dtype = "Int64" -> <<65535, 65533, 255, 254>>
      [] dtype = "Float32" -> <<65407, 65533>>
      [] dtype = "Float64" -> <<65519, 65535, 65534, 253>>
      [] dtype = "TimestampMicros" -> [seconds |-> 16, nanos |-> 645887000]
      [] dtype = "Bytes" -> <<0, 255, 255, 254, 253>>
      [] dtype = "String" -> <<97, 98, 99>>)
LeafB(dtype) ==
  PrimValue(dtype,
    CASE dtype = "Bool" -> FALSE
      [] dtype = "Int64" -> <<0, 0, 0, 0>>
      [] dtype = "Float32" -> <<16256, 0>>
      [] dtype = "Float64" -> <<0, 0, 0, 0>>
      [] dtype = "TimestampMicros" -> [seconds |-> 1, nanos |-> 1999]
      [] dtype = "Bytes" -> << >>
      [] dtype = "String" -> << >>)

\* the nested_list_depth of a column
Depths == {0, 1, 2}

\* the FieldValues of a column of a dtype and depth: null, and values or lists
TopValues(dtype, D) ==
  LET a == LeafA(dtype)
      b == LeafB(dtype)
      L(vals) == ListValue(vals)
  IN {NullValue} \cup
     CASE D = 0 -> Leaves(dtype)
       [] D = 1 -> {L(<< >>), L(<<a>>), L(<<b>>), L(<<a, b>>), L(<<b, a, a>>)}
       [] D = 2 -> {L(<< >>), L(<<L(<< >>)>>), L(<<L(<<a>>), L(<< >>)>>),
                    L(<<L(<<b>>)>>), L(<<L(<<a, b>>), L(<<b>>)>>), L(<<L(<< >>), L(<<a>>)>>)}

FieldValueVectors(dtype, D) == SeqsUpTo(TopValues(dtype, D), MaxLen)

\* by dtype and depth
Columns == DataTypes \X Depths
VectorSets == [col \in Columns |-> FieldValueVectors(col[1], col[2])]
\* the value codec of a dtype: new_codec(dtype, choose_codec(dtype))
ValueCodecOf(dtype) == NewCodec(dtype, ChooseCodec(dtype)).val
\* the values of tests::test_decode_rep_levels: [["abc", "de"], null, ["f"], [""], []]
TestStrings ==
  <<ListValue(<<PrimValue("String", <<97, 98, 99>>), PrimValue("String", <<100, 101>>)>>),
    NullValue,
    ListValue(<<PrimValue("String", <<102>>)>>),
    ListValue(<<PrimValue("String", << >>)>>),
    ListValue(<< >>)>>
\* the vectors whose encoding is decoded to levels
RepLevelInputs(col) ==
  VectorSets[col] \cup (IF col = <<"String", 1>> THEN {TestStrings} ELSE {})
\* ClientError::from(e), by the type of e
ClientErrorFrom(e) ==
  CASE e.type = "transport" -> ClientFromTransport(e)
    [] e.type = "status" -> ClientFromStatus(e)
    [] e.type = "core" -> ClientFromCore(e)
    [] e.type = "utf8" -> ClientFromCore(e)

ChooseCodecCall(dtype) ==
  /\ core_call.fn = "none"
  /\ core_call' = [fn |-> "choose_codec", args |-> <<dtype>>]
  /\ core_ret' = ChooseCodec(dtype)
  /\ UNCHANGED client_vars
NewCodecCall(dtype, codec_name) ==
  /\ core_call.fn = "none"
  /\ core_call' = [fn |-> "new_codec", args |-> <<dtype, codec_name>>]
  /\ core_ret' = NewCodec(dtype, codec_name)
  /\ UNCHANGED client_vars
\* P::try_from_atoms(atoms), for the slices of no atom and of the atoms of
\* one primitive
AtomSlices(dtype) ==
  {<< >>} \cup {ToAtoms(dtype, TryFromValue(dtype, v).val) : v \in Leaves(dtype)}
TryFromAtomsCall(dtype, atoms) ==
  /\ core_call.fn = "none"
  /\ core_call' = [fn |-> "try_from_atoms", args |-> <<dtype, atoms>>]
  /\ core_ret' = TryFromAtoms(dtype, atoms)
  /\ UNCHANGED client_vars
\* decompress_rep_levels of the stream of u32 levels that compress_rep_levels
\* writes, for the least and the greatest depths and the levels 0..D+1 at
\* their ends
LevelDepths == {0, 1, U8_MAX - 1, U8_MAX}
LevelStreams(D) == SeqsUpTo({0, 1, D, D + 1}, MaxLen)
DecompressRepLevelsCall(D, levels) ==
  /\ core_call.fn = "none"
  /\ core_call' = [fn |-> "decompress_rep_levels",
                   args |-> <<D, CompressRepLevels(levels).val>>, levels |-> levels]
  /\ core_ret' = DecompressRepLevels(CompressRepLevels(levels).val)
  /\ UNCHANGED client_vars
CoreErrorFromCall(e) ==
  /\ core_call.fn = "none"
  /\ core_call' = [fn |-> "CoreError::from", args |-> <<e>>]
  /\ core_ret' = CoreErrorFrom(e)
  /\ UNCHANGED client_vars
ClientErrorFromCall(e) ==
  /\ core_call.fn = "none"
  /\ core_call' = [fn |-> "ClientError::from", args |-> <<e>>]
  /\ core_ret' = ClientErrorFrom(e)
  /\ UNCHANGED client_vars
EncodeCall(dtype, D, fvs) ==
  /\ core_call.fn = "none"
  /\ core_call' = [fn |-> "encode", args |-> <<dtype, D, fvs>>]
  /\ core_ret' = Encode(fvs, dtype, D)
  /\ UNCHANGED client_vars
\* decode(encode(fvs)): the bytes decoded are those the encoder returns for fvs
DecodeCall(dtype, D, fvs) ==
  /\ core_call.fn = "none"
  /\ core_call' = [fn |-> "decode", args |-> <<dtype, D, Encode(fvs, dtype, D).val>>,
                   fvs |-> fvs]
  /\ core_ret' = Decode(Encode(fvs, dtype, D).val, dtype, D)
  /\ UNCHANGED client_vars
CompressCall(dtype, D, fvs) ==
  /\ core_call.fn = "none"
  /\ core_call' = [fn |-> "compress", args |-> <<dtype, D, fvs>>]
  /\ core_ret' = ValueCodecCompress(ValueCodecOf(dtype), fvs, D)
  /\ UNCHANGED client_vars
\* decompress(compress(fvs)): the bytes are those ValueCodec::compress returns for fvs
DecompressCall(dtype, D, fvs) ==
  /\ core_call.fn = "none"
  /\ core_call' = [fn |-> "decompress",
                   args |-> <<dtype, D, ValueCodecCompress(ValueCodecOf(dtype), fvs, D).val>>,
                   fvs |-> fvs]
  /\ core_ret' = ValueCodecDecompress(ValueCodecOf(dtype),
                                      ValueCodecCompress(ValueCodecOf(dtype), fvs, D).val, D)
  /\ UNCHANGED client_vars
\* the encoding of fvs decoded to levels and atoms
DecodeRepLevelsCall(dtype, D, fvs) ==
  /\ core_call.fn = "none"
  /\ core_call' = [fn |-> "decode_rep_levels", args |-> <<dtype, D, Encode(fvs, dtype, D).val>>,
                   fvs |-> fvs]
  /\ core_ret' = DecodeRepLevels(Encode(fvs, dtype, D).val, dtype, D)
  /\ UNCHANGED client_vars
ParsePbWithBytesCall(bytes) ==
  /\ core_call.fn = "none"
  /\ core_call' = [fn |-> "parse_pb_with_bytes", args |-> <<bytes>>]
  /\ core_ret' = ParsePbWithBytes(bytes)
  /\ UNCHANGED client_vars
ApiReadSegmentColumnCall(content) ==
  /\ core_call.fn = "none"
  /\ core_call' = [fn |-> "api_read_segment_column", args |-> <<content>>]
  /\ core_ret' = ApiReadSegmentColumn(content)
  /\ UNCHANGED client_vars
CompressDeletionsCall(deleted) ==
  /\ core_call.fn = "none"
  /\ core_call' = [fn |-> "compress_deletions", args |-> <<deleted>>]
  /\ core_ret' = CompressDeletions(deleted)
  /\ UNCHANGED client_vars
DecompressDeletionsCall(bytes) ==
  /\ core_call.fn = "none"
  /\ core_call' = [fn |-> "decompress_deletions", args |-> <<bytes>>]
  /\ core_ret' = DecompressDeletions(bytes)
  /\ UNCHANGED client_vars

NextCore ==
  /\ core_call.fn = "none"
  /\ \/ \E dtype \in DataTypes : ChooseCodecCall(dtype)
     \/ \E dtype \in DataTypes : \E codec_name \in CodecArgs : NewCodecCall(dtype, codec_name)
     \/ \E e \in ErrorOrigins : ClientErrorFromCall(e)
     \/ \E e \in CoreErrorOrigins : CoreErrorFromCall(e)
     \/ \E D \in LevelDepths : \E levels \in LevelStreams(D) : DecompressRepLevelsCall(D, levels)
     \/ \E dtype \in DataTypes : \E atoms \in AtomSlices(dtype) : TryFromAtomsCall(dtype, atoms)
     \/ \E deleted \in BoolSeqs : CompressDeletionsCall(deleted)
     \/ \E col \in Columns : \E fvs \in VectorSets[col] : EncodeCall(col[1], col[2], fvs)
     \/ \E col \in Columns : \E fvs \in VectorSets[col] : DecodeCall(col[1], col[2], fvs)
     \/ \E bytes \in DeletionBytes : DecompressDeletionsCall(bytes)
     \/ \E bytes \in Bodies : ParsePbWithBytesCall(bytes)
     \/ \E content \in Bodies : ApiReadSegmentColumnCall(content)
     \/ \E col \in Columns : \E fvs \in VectorSets[col] : CompressCall(col[1], col[2], fvs)
     \/ \E col \in Columns : \E fvs \in RepLevelInputs(col) :
          DecodeRepLevelsCall(col[1], col[2], fvs)
     \/ \E col \in Columns : \E fvs \in VectorSets[col] : DecompressCall(col[1], col[2], fvs)

SpecCore == Init /\ [][NextCore]_vars
(***************************************************************************)
(* Properties.                                                             *)
(***************************************************************************)
Called == call # "none"
\* the read loop of the current column has ended on a response with an empty token
LoopEnded ==
  /\ Called
  /\ col_idx > 0
  /\ resp_count[CurrentColumn] > 0
  /\ last_token[CurrentColumn] = ""
ColumnReturned == pc = "done" /\ call = "decode_segment_column" /\ LoopEnded
SegmentReturned == pc = "done" /\ call = "decode_segment" /\ result.ok

\* the three regions of the column read, decoded from the buffers of the loop
Fc == DecompressRegion(compressed_bytes, codec, columns[CurrentColumn])
Fi == [k \in 1..implicit_nulls_count |-> NullValue]
Fv == DecodeRegion(uncompressed_bytes, columns[CurrentColumn])
Concatenation == Fc.val \o Fi \o Fv.val

\* C1: in decode_segment_column the loop sends at least one request, sends one
\* more after every response whose continuation token is non-empty, and after
\* the first response whose token is empty it sends no request and ends.
C1_LoopFollowsToken ==
  call = "decode_segment_column" =>
    LET c == CurrentColumn IN
    /\ req_count[c] >= 1
    /\ resp_count[c] > 0 /\ last_token[c] # "" => req_count[c] = resp_count[c] + 1
    /\ resp_count[c] > 0 /\ last_token[c] = "" =>
         /\ req_count[c] = resp_count[c]
         /\ pc = "done"
         /\ inflight = NoRequest
    /\ pc = "col_wait" =>
         /\ inflight.type = "ReadSegmentColumn"
         /\ req_count[c] = resp_count[c] + 1

C1_Witness ==
  /\ ColumnReturned
  /\ result.ok
  /\ resp_count[CurrentColumn] = MaxResponses
  /\ req_count[CurrentColumn] = MaxResponses

\* C2: within one column read the first request carries the empty token and
\* every later request carries the continuation token of the response just
\* before it, for the column being read.
C2_TokenChain ==
  pc = "col_wait" =>
    /\ inflight.type = "ReadSegmentColumn"
    /\ inflight.column_name = CurrentColumn
    /\ inflight.continuation_token =
         IF resp_count[CurrentColumn] = 0 THEN "" ELSE last_token[CurrentColumn]

C2_Witness ==
  /\ call = "decode_segment"
  /\ pc = "col_wait"
  /\ col_idx = 2
  /\ resp_count[CurrentColumn] = 1
  /\ inflight.continuation_token = "t1"

\* C3: within one decode_segment call the deletions request and every column
\* request carry one and the same correlation ID.
C3_OneCorrelationId ==
  call = "decode_segment" =>
    /\ Cardinality(sent_ids) <= 1
    /\ inflight # NoRequest => sent_ids = {inflight.correlation_id}

C3_Witness ==
  /\ SegmentReturned
  /\ Len(order) = 2
  /\ req_count[order[1]] + req_count[order[2]] = MaxSegmentResponses
  /\ Cardinality(sent_ids) = 1

ContradictoryEnd == ColumnReturned /\ compressed_bytes # << >> /\ implicit_nulls_count > 0

CodecsSeen(c) ==
  {resp_log[c][k].codec : k \in {j \in 1..Len(resp_log[c]) : resp_log[c][j].data # << >>}} \ {""}

\* C5: a column read in which two responses carry (data under) different
\* non-empty codec names is not decoded as if it were consistent: it returns
\* no values.
C5_CodecStaysTheSame ==
  ColumnReturned /\ Cardinality(CodecsSeen(CurrentColumn)) > 1 => ~result.ok

\* C6: the values of a column are the decompressed values, then the implicit
\* nulls, then the decoded uncompressed values (nothing being deleted).
C6_RegionOrder ==
  ColumnReturned /\ result.ok /\ (\A i \in 1..Len(is_deleted) : ~is_deleted[i]) =>
    result.val = Fc.val \o Fi \o Fv.val

C6_Witness ==
  /\ ColumnReturned
  /\ result.ok
  /\ \A i \in 1..Len(is_deleted) : ~is_deleted[i]
  /\ resp_log[CurrentColumn][1].codec = ""
  /\ Fc.val # << >>
  /\ Fv.val # << >>
  /\ Fc.val \o Fv.val # Fv.val \o Fc.val

\* positions of the concatenation that are not deleted
KeptPositions(len, deleted) == {i \in 1..len : i > Len(deleted) \/ ~deleted[i]}
\* the k-th smallest element of a set of positions
KthOf(S, k) == CHOOSE i \in S : Cardinality({j \in S : j <= i}) = k
TrueCount(deleted) == Cardinality({i \in 1..Len(deleted) : deleted[i]})

\* C7: the result is the subsequence of Fc, Fi, Fv concatenated at the
\* positions i where is_deleted[i] is not true, in order, one index running
\* over the three regions; its length is between N - #true and N.
C7_DeletedRowsDropped ==
  ColumnReturned /\ result.ok =>
    LET kept == KeptPositions(Len(Concatenation), is_deleted) IN
    /\ Len(result.val) = Cardinality(kept)
    /\ \A k \in 1..Len(result.val) : result.val[k] = Concatenation[KthOf(kept, k)]
    /\ Len(result.val) >= Len(Concatenation) - TrueCount(is_deleted)
    /\ Len(result.val) <= Len(Concatenation)

C7_Witness ==
  /\ ColumnReturned
  /\ result.ok
  /\ implicit_nulls_count > 0
  /\ Fv.val # << >>
  /\ \E i \in 1..Len(is_deleted) :
       /\ is_deleted[i]
       /\ i > implicit_nulls_count
       /\ i < Len(Concatenation)
       /\ Concatenation[i] # Concatenation[i + 1]

\* the most false entries appended to is_deleted
MaxPad == 2

\* C8: positions at or beyond the length of is_deleted are not deleted: an
\* empty is_deleted gives the whole concatenation, and appending false entries
\* to is_deleted does not change the result.
C8_BeyondIsNotDeleted ==
  ColumnReturned =>
    /\ \A k \in 1..MaxPad :
         DecodeColumn(compressed_bytes, uncompressed_bytes, codec, implicit_nulls_count,
                      columns[CurrentColumn], is_deleted \o [j \in 1..k |-> FALSE]) = result
    /\ result.ok /\ is_deleted = << >> => result.val = Concatenation

C8_Witness ==
  /\ ColumnReturned
  /\ result.ok
  /\ is_deleted = <<TRUE>>
  /\ Len(Concatenation) > 2
  /\ Len(result.val) = Len(Concatenation) - 1

\* C9: decode_segment returns exactly n rows, n the least length of the
\* columns' value vectors.
C9_RowCountIsMin ==
  SegmentReturned =>
    /\ \A c \in DOMAIN columns : fvalues_of[c].ok /\ Len(result.val) <= Len(fvalues_of[c].val)
    /\ \E c \in DOMAIN columns : Len(result.val) = Len(fvalues_of[c].val)

C9_Witness ==
  /\ SegmentReturned
  /\ Len(order) = 2
  /\ Len(fvalues_of[order[1]].val) > Len(fvalues_of[order[2]].val)
  /\ Len(result.val) > 0

\* C10: row j of the result holds, for every requested column and for no
\* other, the j-th value of that column.
C10_RowsHoldColumnValues ==
  SegmentReturned =>
    \A j \in 1..Len(result.val) :
      /\ DOMAIN result.val[j] = DOMAIN columns
      /\ \A c \in DOMAIN columns : result.val[j][c] = fvalues_of[c].val[j]

C10_Witness ==
  /\ SegmentReturned
  /\ Len(order) = 2
  /\ Len(result.val) >= 2
  /\ result.val[1] # result.val[2]
  /\ result.val[1]["a"] # result.val[1]["b"]

EmptyColumnsCall == pc = "done" /\ call = "decode_segment" /\ DOMAIN columns = {}

QDtypes == {"Int64", "Float32", "Float64", "Bool", "TimestampMicros"}
ZDtypes == {"String", "Bytes"}

\* C17: choose_codec gives the Q codec for i64, f32, f64, bool and timestamp,
\* the Z codec for string and bytes, and never the empty codec name.
C17_ChooseCodecTable ==
  core_call.fn = "choose_codec" =>
    /\ core_call.args[1] \in QDtypes => core_ret = "q_compress"
    /\ core_call.args[1] \in ZDtypes => core_ret = "zstd"
    /\ core_ret # ""

C17_Witness ==
  /\ core_call.fn = "choose_codec"
  /\ core_call.args[1] = "String"
  /\ core_ret = "zstd"

\* C18: new_codec(dtype, codec) succeeds exactly for the codec name of the
\* dtype's family (so for choose_codec(dtype)), and returns an error of kind
\* Invalid for every other pair.
C18_NewCodecInvalid ==
  core_call.fn = "new_codec" =>
    LET dtype == core_call.args[1]
        name == core_call.args[2]
        supported == \/ dtype \in QDtypes /\ name = "q_compress"
                     \/ dtype \in ZDtypes /\ name = "zstd"
    IN /\ supported => core_ret.ok
       /\ ~supported => ~core_ret.ok /\ core_ret.err.kind = "Invalid"
       /\ name = ChooseCodec(dtype) => core_ret.ok

C18_Witness ==
  /\ core_call.fn = "new_codec"
  /\ core_call.args = <<"Int64", "zstd">>
  /\ ~core_ret.ok

RequestFailed == pc = "done" /\ ~result.ok /\ result.err.kind = "Grpc"

\* C20: a request is never sent again: while a column request is awaited
\* exactly one more request than responses has been sent for the column, and
\* when a request fails the call returns at once the error of the failed
\* request, with no request in flight and no rows.
C20_NoRetries ==
  call = "decode_segment" =>
    /\ pc = "col_wait" => req_count[CurrentColumn] = resp_count[CurrentColumn] + 1
    /\ RequestFailed =>
         /\ inflight = NoRequest
         /\ \E s \in Statuses : result.err = [kind |-> "Grpc", code |-> s.code, message |-> s.message]
         /\ \A c \in ColumnNames :
              req_count[c] = resp_count[c] + (IF col_idx > 0 /\ c = CurrentColumn THEN 1 ELSE 0)

C20_Witness ==
  /\ call = "decode_segment"
  /\ RequestFailed
  /\ col_idx = 2
  /\ resp_count[CurrentColumn] = 1
  /\ rows # << >>
  /\ result.err.code = "NotFound"

\* C12: decompress_deletions applied to what compress_deletions returns for a
\* bool sequence gives that sequence back.
C12_DeletionRoundTrip ==
  core_call.fn = "decompress_deletions" =>
    \A deleted \in BoolSeqs :
      core_call.args[1] = CompressDeletions(deleted).val => core_ret = Ok(deleted)

C12_Witness ==
  /\ core_call.fn = "decompress_deletions"
  /\ core_call.args[1] = CompressDeletions(<<TRUE, FALSE, TRUE>>).val
  /\ core_ret = Ok(<<TRUE, FALSE, TRUE>>)

\* C13: decompress_deletions applied to the empty byte sequence returns the
\* empty bool vector without error.
C13_EmptyDeletions ==
  core_call.fn = "decompress_deletions" /\ core_call.args[1] = << >> =>
    core_ret = Ok(<< >>)

\* the FieldValue as a timestamp of whole microseconds holds it
RECURSIVE WholeMicros(_)
WholeMicros(fv) ==
  CASE fv.kind = "TimestampMicros" ->
         PrimValue("TimestampMicros",
                   [seconds |-> fv.v.seconds, nanos |-> fv.v.nanos - (fv.v.nanos % 1000)])
    [] fv.kind = "list" -> ListValue([k \in 1..Len(fv.vals) |-> WholeMicros(fv.vals[k])])
    [] OTHER -> fv
WholeMicrosAll(fvs) == [k \in 1..Len(fvs) |-> WholeMicros(fvs[k])]

\* C14 as stated: for every dtype, depth and vector V, decode(encode(V, D), D)
\* is V.
C14_Original ==
  core_call.fn = "decode" => core_ret = Ok(core_call.fvs)

\* C14: for every dtype, depth and vector V, decode(encode(V, D), D) is V with
\* every timestamp cut to whole microseconds; so it is V for every dtype but
\* timestamp, and for timestamps of whole microseconds.
C14_EscapeRoundTrip ==
  core_call.fn = "decode" => core_ret = Ok(WholeMicrosAll(core_call.fvs))

C14_Witness ==
  /\ core_call.fn = "decode"
  /\ core_call.args[1] = "Bytes"
  /\ core_call.args[2] = 2
  /\ core_call.fvs =
       <<NullValue,
         ListValue(<<ListValue(<<LeafA("Bytes"), LeafB("Bytes")>>), ListValue(<<LeafB("Bytes")>>)>>)>>
  /\ core_ret = Ok(core_call.fvs)

\* C15 as stated: decompress(compress(V, D), D) is V, for every dtype
C15_Original ==
  core_call.fn = "decompress" => core_ret = Ok(core_call.fvs)

\* C15: ValueCodec::compress returns the compressed rep-levels followed by the
\* compressed atoms; ValueCodec::decompress of these bytes takes as atom region
\* exactly the bytes after the rep-level region, and returns V with every
\* timestamp cut to whole microseconds (V itself for the other dtypes), nulls,
\* empty lists and lists of empty lists included
C15_ValueCodecRoundTrip ==
  /\ core_call.fn = "compress" =>
        LET compressor == ValueCodecOf(core_call.args[1])
            e == ExtractLevelsAndAtoms(core_call.args[3], core_call.args[1], core_call.args[2])
            a == ValueCodecCompressAtomsOnly(compressor, core_call.args[3], core_call.args[2])
        IN /\ core_ret.ok
           /\ core_ret.val = CompressRepLevels(e.val.levels).val \o a.val
  /\ core_call.fn = "decompress" =>
        /\ core_ret = Ok(WholeMicrosAll(core_call.fvs))
        /\ DecompressRepLevels(core_call.args[3]).val.remaining_bytes =
             ValueCodecCompressAtomsOnly(ValueCodecOf(core_call.args[1]), core_call.fvs,
                                         core_call.args[2]).val
C15_Witness ==
  /\ core_call.fn = "decompress"
  /\ core_call.args[1] = "String"
  /\ core_call.args[2] = 2
  /\ core_ret = Ok(<<ListValue(<<ListValue(<< >>), ListValue(<<LeafA("String")>>)>>), NullValue>>)

\* the bytes of the strings of a value, in order
RECURSIVE StringBytes(_)
StringBytes(value) ==
  IF value = NullValue THEN << >>
  ELSE IF value.kind = "list"
  THEN IF value.vals = << >> THEN << >>
       ELSE StringBytes(Head(value.vals)) \o StringBytes(ListValue(Tail(value.vals)))
  ELSE value.v
RECURSIVE AllStringBytes(_)
AllStringBytes(fvs) ==
  IF fvs = << >> THEN << >> ELSE StringBytes(Head(fvs)) \o AllStringBytes(Tail(fvs))

\* the levels of one value at nesting depth `depth`, by the rule of C16
RECURSIVE ClaimedLevels(_, _, _)
ClaimedLevels(value, depth, D) ==
  IF value = NullValue THEN <<0>>
  ELSE IF value.kind = "list"
  THEN IF value.vals = << >> THEN <<depth + 1>>
       ELSE ClaimedLevels(Head(value.vals), depth + 1, D) \o
            ClaimedLevels(ListValue(Tail(value.vals)), depth, D)
  ELSE [k \in 1..Len(value.v) |-> D + 2] \o <<D + 1>>

\* C16: decoding an escape-framed string column of depth D to rep-levels and
\* atoms gives one RepLevelsAndAtoms for each top-level value, in order: the
\* single level 0 for a null; else D + 2 for each byte of a string and D + 1
\* closing it, and L where the list at depth L closes; the atoms are the bytes
\* of the strings in order.  For [["abc","de"], null, ["f"], [""], []] and D = 1
\* the levels are [3,3,3,2,3,3,2,1,0,3,2,1,2,1,1] and the atoms a to f.
C16_StringRepLevels ==
  (core_call.fn = "decode_rep_levels" /\ core_call.args[1] = "String") =>
    /\ core_ret.ok
    /\ Len(core_ret.val) = Len(core_call.fvs)
    /\ \A k \in 1..Len(core_call.fvs) :
         /\ core_ret.val[k].levels = ClaimedLevels(core_call.fvs[k], 0, core_call.args[2])
         /\ core_ret.val[k].atoms = StringBytes(core_call.fvs[k])
    /\ Combined(core_ret.val).atoms = AllStringBytes(core_call.fvs)
    /\ (core_call.args[2] = 1 /\ core_call.fvs = TestStrings) =>
         /\ Combined(core_ret.val).levels = <<3, 3, 3, 2, 3, 3, 2, 1, 0, 3, 2, 1, 2, 1, 1>>
         /\ Combined(core_ret.val).atoms = <<97, 98, 99, 100, 101, 102>>
C16_Witness ==
  /\ core_call.fn = "decode_rep_levels"
  /\ core_call.args[1] = "String"
  /\ core_call.args[2] = 1
  /\ core_call.fvs = TestStrings
  /\ core_ret.ok
  /\ Len(core_ret.val) = 5

\* the indices, from 0, where the two bytes } \n occur in the body
DelimIndices(body) ==
  {k \in 0..(Len(body) - 2) : body[k + 1] = 125 /\ body[k + 2] = 10}
FirstDelim(body) == CHOOSE k \in DelimIndices(body) : \A j \in DelimIndices(body) : k <= j

\* C21: parse_pb_with_bytes splits the body at the first } \n: with i the
\* smallest index where the two bytes occur, the JSON is bytes[0..i] with the },
\* the data is all that follows the \n, JSON, \n and data together are the
\* body, and later } \n of the data are kept; the same data is the data of the
\* response of api_read_segment_column.  A body that has the delimiter, whose
\* prefix is UTF-8 and the JSON of a message, is split.
C21_SplitAtFirstDelim ==
  /\ (core_call.fn = "parse_pb_with_bytes" /\ core_ret.ok) =>
       LET body == core_call.args[1]
           i == FirstDelim(body)
       IN /\ DelimIndices(body) # {}
          /\ core_ret.val[1].json = SubSeq(body, 1, i + 1)
          /\ core_ret.val[2] = SubSeq(body, i + 3, Len(body))
          /\ core_ret.val[1].json \o <<10>> \o core_ret.val[2] = body
  /\ (core_call.fn = "api_read_segment_column" /\ core_ret.ok) =>
       core_ret.val.json \o <<10>> \o core_ret.val.data = core_call.args[1]
  /\ core_call.fn = "parse_pb_with_bytes" =>
       LET body == core_call.args[1] IN
       (/\ DelimIndices(body) # {}
        /\ IsUtf8(SubSeq(body, 1, FirstDelim(body) + 1))
        /\ body[1] = 123) => core_ret.ok
C21_Witness ==
  /\ core_call.fn = "parse_pb_with_bytes"
  /\ core_call.args[1] = <<123, 125, 10, 125, 10>>
  /\ core_ret = Ok(<<[json |-> <<123, 125>>], <<125, 10>>>>)

\* C22 as stated: a body without } \n is rejected with an error of kind Invalid
C22_Original ==
  (core_call.fn = "parse_pb_with_bytes" /\ DelimIndices(core_call.args[1]) = {}) =>
    (~core_ret.ok /\ core_ret.err.kind = "Invalid")

\* C22: for every body without } \n, the empty body and the bodies of one byte
\* included, parse_pb_with_bytes ends, reads no index past the end of the body
\* (no panic), and returns the error of kind Other "could not parse read
\* segment column response"
C22_NoDelimIsOther ==
  (core_call.fn = "parse_pb_with_bytes" /\ DelimIndices(core_call.args[1]) = {}) =>
    core_ret = Err(ClientOther("could not parse read segment column response"))
C22_Witness ==
  /\ core_call.fn = "parse_pb_with_bytes"
  /\ core_call.args[1] = <<125>>
  /\ core_ret = Err(ClientOther("could not parse read segment column response"))

(***************************************************************************)
(* The buffers and the null count of the read loop.                        *)
(***************************************************************************)
\* the data of the logged responses whose codec is empty (or is not),
\* concatenated in order
RECURSIVE ConcatData(_, _)
ConcatData(log, empty_codec) ==
  IF log = << >> THEN << >>
  ELSE (IF (Head(log).codec = "") = empty_codec THEN Head(log).data ELSE << >>)
         \o ConcatData(Tail(log), empty_codec)

\* C23: when the read loop of a column has ended, compressed_bytes is the
\* concatenation, in response order, of the data of exactly the responses
\* with a non-empty codec, and uncompressed_bytes that of exactly the
\* responses with an empty codec.
C23_BuffersSplitByCodec ==
  ColumnReturned =>
    /\ compressed_bytes = ConcatData(resp_log[CurrentColumn], FALSE)
    /\ uncompressed_bytes = ConcatData(resp_log[CurrentColumn], TRUE)

C23_Witness ==
  /\ ColumnReturned
  /\ Len(resp_log[CurrentColumn]) = 2
  /\ resp_log[CurrentColumn][1].codec = ""
  /\ resp_log[CurrentColumn][2].codec # ""
  /\ compressed_bytes # << >>
  /\ uncompressed_bytes # << >>
  /\ compressed_bytes # uncompressed_bytes

\* C24: the null count of a column read is that of its final response only:
\* the value at the end of the loop, the value tested by the exclusivity
\* check and the number of nulls emitted between Fc and Fv are all the
\* implicit_nulls_count of the last response.
C24_NullsCountOfLastResponse ==
  ColumnReturned =>
    LET last == nulls_log[CurrentColumn].last IN
    /\ implicit_nulls_count = last
    /\ result = DecodeColumn(compressed_bytes, uncompressed_bytes, codec, last,
                             columns[CurrentColumn], is_deleted)

C24_Witness ==
  /\ ColumnReturned
  /\ nulls_log[CurrentColumn].earlier
  /\ nulls_log[CurrentColumn].last = 0
  /\ compressed_bytes # << >>
  /\ result.ok
  /\ result.val # << >>

(***************************************************************************)
(* The range of the repetition levels.                                     *)
(***************************************************************************)
\* the level that marks one atom: D+1 for an atomic dtype, D+2 for the bytes
\* of a string or bytes value
LeafLevel(dtype, D) == IF IsAtomic(dtype) THEN D + 1 ELSE D + 2
CountOf(levels, l) == Cardinality({k \in 1..Len(levels) : levels[k] = l})
SeqMax(levels) ==
  IF levels = << >> THEN 0
  ELSE CHOOSE m \in {levels[k] : k \in 1..Len(levels)} :
         \A k \in 1..Len(levels) : levels[k] <= m

\* C25 as stated: every level of a rep-level stream lies in {0..D+1}, for
\* every dtype including string and bytes.
C25_Original ==
  (core_call.fn = "decode_rep_levels" /\ core_ret.ok) =>
    \A k \in 1..Len(Combined(core_ret.val).levels) :
      Combined(core_ret.val).levels[k] \in 0..(core_call.args[2] + 1)

\* C25: every level of a rep-level stream lies in {0..D+1} for an atomic
\* dtype and in {0..D+2} for string and bytes, whose bytes are marked by
\* D+2; the number of leaf-marking levels equals the number of atoms.
C25_LevelsInRange ==
  (core_call.fn = "decode_rep_levels" /\ core_ret.ok) =>
    LET dtype == core_call.args[1]
        D == core_call.args[2]
        combined == Combined(core_ret.val)
    IN /\ \A k \in 1..Len(combined.levels) : combined.levels[k] \in 0..LeafLevel(dtype, D)
       /\ CountOf(combined.levels, LeafLevel(dtype, D)) = Len(combined.atoms)

C25_Witness ==
  /\ core_call.fn = "decode_rep_levels"
  /\ core_call.args[1] = "Bytes"
  /\ core_call.args[2] = 2
  /\ core_ret.ok
  /\ SeqMax(Combined(core_ret.val).levels) = 4
  /\ Len(Combined(core_ret.val).atoms) > 1
  /\ CountOf(Combined(core_ret.val).levels, 0) > 0

(***************************************************************************)
(* The kinds of the codec errors.                                          *)
(***************************************************************************)
\* C26: an InsufficientData or Corruption error of the Q decompressor
\* becomes a CoreError of kind Corrupt, an InvalidArgument one of kind
\* Invalid, and I/O, UTF-8 and slice-shape errors become Other; the message
\* is kept.
C26_CodecErrorKinds ==
  core_call.fn = "CoreError::from" =>
    LET e == core_call.args[1] IN
    /\ core_ret.message = e.message
    /\ (e.type = "q_compress" /\ e.kind \in {"InsufficientData", "Corruption"})
         => core_ret.kind = "Corrupt"
    /\ (e.type = "q_compress" /\ e.kind = "InvalidArgument") => core_ret.kind = "Invalid"
    /\ e.type \in {"io", "utf8", "slice"} => core_ret.kind = "Other"

C26_Witness ==
  /\ core_call.fn = "CoreError::from"
  /\ core_call.args[1].type = "q_compress"
  /\ core_call.args[1].kind = "InsufficientData"
  /\ core_ret.kind = "Corrupt"

(***************************************************************************)
(* Primitives built from no atom.                                          *)
(***************************************************************************)
\* C27: building an atomic primitive (i64, f32, f64, timestamp) from an
\* empty atom slice with try_from_atoms yields an error value, it does not
\* abort.
C27_EmptyAtomSliceIsError ==
  (/\ core_call.fn = "try_from_atoms"
   /\ core_call.args[1] \in {"Int64", "Float32", "Float64", "TimestampMicros"}
   /\ core_call.args[2] = << >>)
    => ~core_ret.ok /\ core_ret.err.kind \in {"Corrupt", "Invalid", "Other"}

(***************************************************************************)
(* The join and the order of the columns.                                  *)
(***************************************************************************)
\* lines 155-174 for the columns taken in the order ord from position i on,
\* given the value vector of every column
RECURSIVE JoinFrom(_, _, _, _)
JoinFrom(ord, i, fvs, st) ==
  IF i > Len(ord) THEN ReturnRows(st.rows, st.n)
  ELSE JoinFrom(ord, i + 1, fvs, JoinColumn(st, ord[i], fvs[ord[i]].val))
JoinInOrder(ord, fvs) == JoinFrom(ord, 1, fvs, [n |-> USIZE_MAX, rows |-> << >>])

\* C28: the rows returned by decode_segment do not depend on the order in
\* which the columns are processed: joining the same per-column value
\* vectors in any order of the columns gives the rows returned.
C28_ColumnOrderIrrelevant ==
  SegmentReturned =>
    \A ord \in Orders(DOMAIN columns) : JoinInOrder(ord, fvalues_of) = result.val

C28_Witness ==
  /\ SegmentReturned
  /\ Len(order) = 2
  /\ Len(fvalues_of[order[1]].val) # Len(fvalues_of[order[2]].val)
  /\ Len(result.val) > 0
  /\ \E ord \in Orders(DOMAIN columns) : ord # order
  /\ fvalues_of[order[1]].val[1] # fvalues_of[order[2]].val[1]

(***************************************************************************)
(* The requests of decode_segment, one at a time.                          *)
(***************************************************************************)
ColumnRequestsSent == SumOver(req_count, ColumnNames)
ColumnResponsesReceived == SumOver(resp_count, ColumnNames)

\* C29: one decode_segment call sends exactly one ReadSegmentDeletions
\* request, as its first request; no ReadSegmentColumn request is sent before
\* its response has arrived; at most one request is outstanding at any time,
\* each one sent after the response to the one before; and the is_deleted
\* vector decoded from that response stays the same for every column.
C29_DeletionsOnceAndFirst ==
  /\ [](call = "decode_segment" =>
          /\ pc = "del_wait" =>
               /\ inflight.type = "ReadSegmentDeletions"
               /\ ColumnRequestsSent = 0
               /\ ColumnResponsesReceived = 0
          /\ pc = "col_wait" =>
               /\ inflight.type = "ReadSegmentColumn"
               /\ ColumnRequestsSent = ColumnResponsesReceived + 1
          /\ pc = "done" => inflight = NoRequest)
  /\ [][call' = "decode_segment" =>
          /\ inflight'.type = "ReadSegmentDeletions" => pc = "idle"
          /\ inflight'.type = "ReadSegmentColumn" /\ inflight' # inflight =>
               pc \in {"del_wait", "col_wait"}
          /\ pc = "col_wait" => is_deleted' = is_deleted]_vars

C29_Witness ==
  /\ SegmentReturned
  /\ Len(order) = 2
  /\ \A c \in ColumnNames : req_count[c] > 0
  /\ ColumnRequestsSent = 3
  /\ \E i \in 1..Len(is_deleted) : is_deleted[i]
  /\ Len(result.val) > 0
  /\ \A c \in ColumnNames : Len(fvalues_of[c].val) = Len(result.val)

(***************************************************************************)
(* The width of the repetition levels.                                     *)
(***************************************************************************)
\* C30: decompress_rep_levels returns every stored level unchanged, for
\* every nested_list_depth D in 0..255 and stored u32 levels in {0..D+1}:
\* the narrowing to 8 bits loses nothing.
C30_LevelsUnchanged ==
  core_call.fn = "decompress_rep_levels" =>
    /\ core_ret.ok
    /\ core_ret.val.levels = core_call.levels

====
